---- MODULE Spec2Model ----
(***************************************************************************)
(* Model of the project consolidation tool: the consolidation engine and   *)
(* its job registry (consolidation.rs, ffmpeg.rs, commands.rs), the        *)
(* project cache (commands.rs) and the sequence analyzer                   *)
(* (sequence_analyzer.rs).                                                 *)
(***************************************************************************)
EXTENDS Integers, Sequences, FiniteSets, TLC

\* ------------------------------------------------------------------------
\* Bounds
\* ------------------------------------------------------------------------
MaxMedia == 2

\* ------------------------------------------------------------------------
\* Consolidation engine: state
\* ------------------------------------------------------------------------
VARIABLES
    running_jobs,   \* AppState.running_jobs: the registered job ids
    config,         \* per job: ConsolidationConfig and the used media of its project
    progress,       \* per job: ConsolidationProgress behind its mutex
    cancel_flag,    \* per job: the shared AtomicBool
    pc,             \* per job: position of the worker thread inside run()
    idx,            \* per job: index of the used media item the loop is at
    inv,            \* per job: index of the transcoder invocation for the item
    child,          \* per job: the transcoder subprocess
    path_mapping,   \* per job: run()'s local path_mapping (item -> output part)
    disk,           \* per job: what exists in the output directory
    result,         \* per job: what run() returned, and from which position
    response        \* the response of the last command

engineVars == <<running_jobs, config, progress, cancel_flag, pc, idx, inv, child,
                path_mapping, disk, result, response>>

\* Project cache: state
VARIABLES
    project_cache,  \* path -> cached project (0: no entry), a project being
                    \* identified by the number of the parse that produced it
    parses,         \* number of parses begun so far
    tcmd,           \* per command thread: the command it runs
    tpath,          \* per command thread: the path argument
    tpc,            \* per command thread: position in the command
    tmark,          \* per command thread: `parses` when the command was called
    tproject        \* per command thread: the project it holds (0: none)

cacheVars == <<project_cache, parses, tcmd, tpath, tpc, tmark, tproject>>

\* Sequence analyzer: state
VARIABLES
    project,    \* the PremiereProject the analyzer borrows
    analysis    \* the MediaUsageAnalysis of the last call

analyzeVars == <<project, analysis>>

\* Project loader: state (ParserState of project_parser.rs)
VARIABLES
    current_element,        \* stack of the tag names of the open elements
    object_context_stack,   \* stack of (ObjectID, ObjectUID), one per open element
    objects_by_id,          \* numeric id -> list of XmlObject
    objects_by_uid,         \* GUID -> XmlObject
    refs_from_id,           \* numeric id -> list of (element_tag, target, is_guid)
    refs_from_uid,          \* GUID -> list of (element_tag, target, is_guid)
    media_file_paths,       \* the identifiers that have a media file path
    document,               \* the elements read so far that are still open, with
                            \* the identity each declares (innermost last)
    declared,               \* for each numeric id the objects of the document
                            \* that declare it, each with the references found
                            \* inside it (set when a whole document is loaded)
    nevents,                \* number of events read
    current_text,           \* the text of the last Text event, cleared on End
    event,                  \* the kind of the last event read ("none": none yet)
    resolved                \* the last call of find_media_for_clip

\* TimeRange functions: the arguments of the last call and what it returned
VARIABLES
    range_args,     \* ranges: the list of TimeRange values; gap_tolerance
    range_result    \* op: the function applied ("none": not yet); val: its result

rangeVars == <<range_args, range_result>>

\* Functions called on values (process_trim, the path replacement of
\* write_project_file, find_common_ancestor): the arguments of the last call
\* and what it returned
VARIABLES
    call_args,      \* the arguments, one field per argument
    call_result     \* op: the function applied ("none": not yet); val: its result

callVars == <<call_args, call_result>>

loaderVars == <<current_element, object_context_stack, objects_by_id, objects_by_uid,
                refs_from_id, refs_from_uid, media_file_paths, document, declared, nevents,
                current_text, event, resolved>>

\* job ids (fresh Uuids in the code), and the ids a client may pass to a
\* command: those and one that is never registered
JobIds == {1, 2}
JobIdInputs == JobIds \cup {3}

ProcessingModeConfig == {"Trim", "Transcode", "Copy", "NoProcess"}
OptimizationMode == {"MinimizeDiskSpace", "KeepSameNumberOfFiles", "EachClipUnique"}
ConsolidationStatus == {"Pending", "Analyzing", "Processing", "WritingProject",
                        "Completed", "Cancelled", "Failed"}
TerminalStatus == {"Completed", "Cancelled", "Failed"}

\* One entry of usage.used_media as run() sees it: whether project.media_files
\* has the id, whether the source file exists, its size, and the number of
\* ranges optimize_time_ranges yields for it (never 0: add_media_usage pushes
\* a range whenever it creates an entry).
MediaItems ==
    { [known |-> TRUE,  exists |-> TRUE,  size |-> 2, nranges |-> 1],
      [known |-> TRUE,  exists |-> TRUE,  size |-> 1, nranges |-> 2],
      [known |-> TRUE,  exists |-> FALSE, size |-> 0, nranges |-> 1],
      [known |-> FALSE, exists |-> FALSE, size |-> 0, nranges |-> 1] }

MediaLists(n) == UNION { [1..k -> MediaItems] : k \in 0..n }

\* optimization_mode is only read by process_trim, copy_extras stands for
\* copy_sidecar_files or a proxy_mode that copies proxies.
Configs(n) ==
    { c \in [ processing_mode : ProcessingModeConfig,
              optimization_mode : OptimizationMode,
              skip_offline_media : BOOLEAN,
              copy_extras : BOOLEAN,
              media : MediaLists(n) ] :
        c.processing_mode # "Trim" => c.optimization_mode = "KeepSameNumberOfFiles" }

NoConfig == [ processing_mode |-> "NoProcess", optimization_mode |-> "KeepSameNumberOfFiles",
              skip_offline_media |-> FALSE, copy_extras |-> FALSE, media |-> << >> ]

NewProgress ==
    [ status |-> "Pending", files_processed |-> 0, files_total |-> 0,
      bytes_processed |-> 0, bytes_total |-> 0, errors |-> << >>, warnings |-> << >> ]

NoDisk == [ project |-> FALSE, manifest |-> FALSE, outputs |-> {} ]

EngineInit ==
    /\ running_jobs = {}
    /\ config = [j \in JobIds |-> NoConfig]
    /\ progress = [j \in JobIds |-> NewProgress]
    /\ cancel_flag = [j \in JobIds |-> FALSE]
    /\ pc = [j \in JobIds |-> "none"]
    /\ idx = [j \in JobIds |-> 1]
    /\ inv = [j \in JobIds |-> 1]
    /\ child = [j \in JobIds |-> "none"]
    /\ path_mapping = [j \in JobIds |-> {}]
    /\ disk = [j \in JobIds |-> NoDisk]
    /\ result = [j \in JobIds |-> [val |-> "none", at |-> "none"]]
    /\ response = [cmd |-> "none", job |-> 0, ok |-> TRUE]

\* ------------------------------------------------------------------------
\* Consolidation engine: helpers (all run under the progress mutex)
\* ------------------------------------------------------------------------
update_status(p, status) == [p EXCEPT !.status = status]

\* variant: the byte counter is overwritten instead of advanced
increment_processed_Overwrite(p, bytes) ==
    [p EXCEPT !.files_processed = @ + 1, !.bytes_processed = bytes]

increment_processed(p, bytes) ==
    [p EXCEPT !.files_processed = @ + 1, !.bytes_processed = @ + bytes]

add_error(p, e) == [p EXCEPT !.errors = Append(@, e)]

add_warning(p, w) == [p EXCEPT !.warnings = Append(@, w)]

RECURSIVE SumSizes(_, _)
SumSizes(media, n) ==
    IF n = 0 THEN 0
    ELSE SumSizes(media, n - 1) + (IF media[n].known THEN media[n].size ELSE 0)

calculate_total_bytes(c) == SumSizes(c.media, Len(c.media))

\* Number of transcoder invocations process_trim / process_transcode make for
\* one item.
Invocations(c, item) ==
    CASE c.processing_mode = "Trim" ->
            IF item.nranges = 1 \/ c.optimization_mode = "KeepSameNumberOfFiles"
            THEN 1 ELSE item.nranges
      [] c.processing_mode = "Transcode" -> 1
      [] OTHER -> 0

\* Which output a successful invocation writes: part 0 is output_path itself,
\* part k >= 1 is add_range_suffix(output_path, k - 1, ..).
OutputPart(c, item, k) ==
    IF Invocations(c, item) > 1 THEN k ELSE 0

\* run() returns Err(e): the worker thread only logs it.
Bail(j, err) ==
    /\ pc' = [pc EXCEPT ![j] = "done"]
    /\ result' = [result EXCEPT ![j] = [val |-> err, at |-> pc[j]]]

\* variant: the flag is not read
check_cancelled_NotRead(j, here, next) ==
    /\ pc[j] = here
    /\ pc' = [pc EXCEPT ![j] = next]
    /\ UNCHANGED <<progress, result>>

\* check_cancelled()? at position `here`, continuing at `next`.
check_cancelled(j, here, next) ==
    /\ pc[j] = here
    /\ IF cancel_flag[j]
       THEN /\ progress' = [progress EXCEPT ![j] = update_status(@, "Cancelled")]
            /\ Bail(j, "Err_cancelled")
       ELSE /\ pc' = [pc EXCEPT ![j] = next]
            /\ UNCHANGED <<progress, result>>

\* ------------------------------------------------------------------------
\* Commands (commands.rs)
\* ------------------------------------------------------------------------
\* variant: starting a job drops the jobs registered before it
start_consolidation_Cleanup(j, c) ==
    /\ j \notin running_jobs
    /\ j = Cardinality(running_jobs) + 1
    /\ running_jobs' = {j}
    /\ config' = [config EXCEPT ![j] = c]
    /\ pc' = [pc EXCEPT ![j] = "spawned"]
    /\ response' = [cmd |-> "start", job |-> j, ok |-> TRUE]
    /\ UNCHANGED <<progress, cancel_flag, idx, inv, child, path_mapping, disk, result>>
    /\ UNCHANGED <<cacheVars, analyzeVars, loaderVars, rangeVars, callVars>>

\* job_id is a fresh Uuid: the next unused id.
start_consolidation(j, c) ==
    /\ j \notin running_jobs
    /\ j = Cardinality(running_jobs) + 1
    /\ \/ \* ConsolidationEngine::new fails (parse error, no transcoder binary)
          /\ response' = [cmd |-> "start", job |-> 0, ok |-> FALSE]
          /\ UNCHANGED <<running_jobs, config, pc>>
       \/ /\ running_jobs' = running_jobs \cup {j}
          /\ config' = [config EXCEPT ![j] = c]
          /\ pc' = [pc EXCEPT ![j] = "spawned"]
          /\ response' = [cmd |-> "start", job |-> j, ok |-> TRUE]
    /\ UNCHANGED <<progress, cancel_flag, idx, inv, child, path_mapping, disk, result>>
    /\ UNCHANGED <<cacheVars, analyzeVars, loaderVars, rangeVars, callVars>>

\* variant: one flag shared by the jobs
cancel_flag_store_Shared(flags, j, value) == [k \in DOMAIN flags |-> value]

\* job.cancel_flag.store(value): the AtomicBool of the JobInfo of job j
cancel_flag_store(flags, j, value) == [flags EXCEPT ![j] = value]

\* variant: cancelling also writes the status
cancel_consolidation_MarksCancelled(j) ==
    /\ IF j \in running_jobs
       THEN /\ cancel_flag' = [cancel_flag EXCEPT ![j] = TRUE]
            /\ progress' = [progress EXCEPT ![j] = update_status(@, "Cancelled")]
            /\ response' = [cmd |-> "cancel", job |-> j, ok |-> TRUE]
       ELSE /\ response' = [cmd |-> "cancel", job |-> j, ok |-> FALSE]
            /\ UNCHANGED <<cancel_flag, progress>>
    /\ UNCHANGED <<running_jobs, config, pc, idx, inv, child, path_mapping,
                   disk, result>>
    /\ UNCHANGED <<cacheVars, analyzeVars, loaderVars, rangeVars, callVars>>

cancel_consolidation(j) ==
    /\ IF j \in running_jobs
       THEN /\ cancel_flag' = cancel_flag_store(cancel_flag, j, TRUE)
            /\ response' = [cmd |-> "cancel", job |-> j, ok |-> TRUE]
       ELSE /\ response' = [cmd |-> "cancel", job |-> j, ok |-> FALSE]
            /\ UNCHANGED cancel_flag
    /\ UNCHANGED <<running_jobs, config, progress, pc, idx, inv, child, path_mapping,
                   disk, result>>
    /\ UNCHANGED <<cacheVars, analyzeVars, loaderVars, rangeVars, callVars>>

get_consolidation_progress(j) ==
    /\ IF j \in running_jobs
       THEN response' = [cmd |-> "progress", job |-> j, ok |-> TRUE]
       ELSE response' = [cmd |-> "progress", job |-> j, ok |-> FALSE]
    /\ UNCHANGED <<running_jobs, config, progress, cancel_flag, pc, idx, inv, child,
                   path_mapping, disk, result>>
    /\ UNCHANGED <<cacheVars, analyzeVars, loaderVars, rangeVars, callVars>>

\* ------------------------------------------------------------------------
\* ConsolidationEngine::run, one action per step of the worker thread
\* ------------------------------------------------------------------------
Item(j) == config[j].media[idx[j]]

\* Phase 1: update_status(Analyzing)
run_analyzing(j) ==
    /\ pc[j] = "spawned"
    /\ progress' = [progress EXCEPT ![j] = update_status(@, "Analyzing")]
    /\ pc' = [pc EXCEPT ![j] = "check1"]
    /\ UNCHANGED <<running_jobs, config, cancel_flag, idx, inv, child, path_mapping,
                   disk, result, response>>
    /\ UNCHANGED <<cacheVars, analyzeVars, loaderVars, rangeVars, callVars>>

\* the analysis, then check_cancelled()?
run_check1(j) ==
    /\ check_cancelled(j, "check1", "totals")
    /\ UNCHANGED <<running_jobs, config, cancel_flag, idx, inv, child, path_mapping,
                   disk, response>>
    /\ UNCHANGED <<cacheVars, analyzeVars, loaderVars, rangeVars, callVars>>

\* Phase 2: scan (never fails), files_total and bytes_total
run_totals(j) ==
    /\ pc[j] = "totals"
    /\ progress' = [progress EXCEPT ![j].files_total = Len(config[j].media),
                                    ![j].bytes_total = calculate_total_bytes(config[j])]
    /\ pc' = [pc EXCEPT ![j] = "check2"]
    /\ UNCHANGED <<running_jobs, config, cancel_flag, idx, inv, child, path_mapping,
                   disk, result, response>>
    /\ UNCHANGED <<cacheVars, analyzeVars, loaderVars, rangeVars, callVars>>

run_check2(j) ==
    /\ check_cancelled(j, "check2", "processing")
    /\ UNCHANGED <<running_jobs, config, cancel_flag, idx, inv, child, path_mapping,
                   disk, response>>
    /\ UNCHANGED <<cacheVars, analyzeVars, loaderVars, rangeVars, callVars>>

\* Phase 3: update_status(Processing)
run_processing(j) ==
    /\ pc[j] = "processing"
    /\ progress' = [progress EXCEPT ![j] = update_status(@, "Processing")]
    /\ pc' = [pc EXCEPT ![j] = "mkdirs"]
    /\ UNCHANGED <<running_jobs, config, cancel_flag, idx, inv, child, path_mapping,
                   disk, result, response>>
    /\ UNCHANGED <<cacheVars, analyzeVars, loaderVars, rangeVars, callVars>>

\* create_output_structure()?
create_output_structure(j) ==
    /\ pc[j] = "mkdirs"
    /\ \/ /\ pc' = [pc EXCEPT ![j] = "check3"]
          /\ UNCHANGED result
       \/ Bail(j, "Err_io")
    /\ UNCHANGED <<running_jobs, config, progress, cancel_flag, idx, inv, child,
                   path_mapping, disk, response>>
    /\ UNCHANGED <<cacheVars, analyzeVars, loaderVars, rangeVars, callVars>>

run_check3(j) ==
    /\ check_cancelled(j, "check3", "loop")
    /\ UNCHANGED <<running_jobs, config, cancel_flag, idx, inv, child, path_mapping,
                   disk, response>>
    /\ UNCHANGED <<cacheVars, analyzeVars, loaderVars, rangeVars, callVars>>

\* Phase 4, head of the loop: the next item's check_cancelled()?, or the
\* check_cancelled()? that follows the loop.
run_loop(j) ==
    /\ IF idx[j] <= Len(config[j].media)
       THEN check_cancelled(j, "loop", "item")
       ELSE check_cancelled(j, "loop", "writing")
    /\ UNCHANGED <<running_jobs, config, cancel_flag, idx, inv, child, path_mapping,
                   disk, response>>
    /\ UNCHANGED <<cacheVars, analyzeVars, loaderVars, rangeVars, callVars>>

\* variant: an offline item is counted as processed
run_item_OfflineCounted(j) ==
    /\ pc[j] = "item"
    /\ IF ~Item(j).known
       THEN /\ progress' = [progress EXCEPT ![j] = add_warning(@, idx[j])]
            /\ idx' = [idx EXCEPT ![j] = @ + 1]
            /\ pc' = [pc EXCEPT ![j] = "loop"]
       ELSE IF ~Item(j).exists
       THEN /\ progress' = [progress EXCEPT ![j] =
                  increment_processed(IF config[j].skip_offline_media
                                      THEN add_warning(@, idx[j])
                                      ELSE add_error(@, [file |-> idx[j], is_fatal |-> FALSE]),
                                      0)]
            /\ idx' = [idx EXCEPT ![j] = @ + 1]
            /\ pc' = [pc EXCEPT ![j] = "loop"]
       ELSE /\ pc' = [pc EXCEPT ![j] = "prepare"]
            /\ UNCHANGED <<progress, idx>>
    /\ UNCHANGED <<running_jobs, config, cancel_flag, inv, child, path_mapping,
                   disk, result, response>>
    /\ UNCHANGED <<cacheVars, analyzeVars, loaderVars, rangeVars, callVars>>

\* media lookup and the offline branch; else update_current_file
run_item(j) ==
    /\ pc[j] = "item"
    /\ IF ~Item(j).known
       THEN /\ progress' = [progress EXCEPT ![j] = add_warning(@, idx[j])]
            /\ idx' = [idx EXCEPT ![j] = @ + 1]
            /\ pc' = [pc EXCEPT ![j] = "loop"]
       ELSE IF ~Item(j).exists
       THEN /\ progress' = [progress EXCEPT ![j] =
                  IF config[j].skip_offline_media
                  THEN add_warning(@, idx[j])
                  ELSE add_error(@, [file |-> idx[j], is_fatal |-> FALSE])]
            /\ idx' = [idx EXCEPT ![j] = @ + 1]
            /\ pc' = [pc EXCEPT ![j] = "loop"]
       ELSE /\ pc' = [pc EXCEPT ![j] = "prepare"]
            /\ UNCHANGED <<progress, idx>>
    /\ UNCHANGED <<running_jobs, config, cancel_flag, inv, child, path_mapping,
                   disk, result, response>>
    /\ UNCHANGED <<cacheVars, analyzeVars, loaderVars, rangeVars, callVars>>

\* calculate_output_path()? and fs::create_dir_all(parent)?
run_prepare(j) ==
    /\ pc[j] = "prepare"
    /\ \/ /\ pc' = [pc EXCEPT ![j] = "dispatch"]
          /\ UNCHANGED result
       \/ Bail(j, "Err_item")
    /\ UNCHANGED <<running_jobs, config, progress, cancel_flag, idx, inv, child,
                   path_mapping, disk, response>>
    /\ UNCHANGED <<cacheVars, analyzeVars, loaderVars, rangeVars, callVars>>

\* match processing_mode: process_copy, NoProcess, or the probe of
\* process_trim and the way to the first transcoder invocation
run_dispatch(j) ==
    /\ pc[j] = "dispatch"
    /\ CASE config[j].processing_mode = "Copy" ->
              \/ /\ disk' = [disk EXCEPT ![j].outputs = @ \cup {<<idx[j], 0>>}]
                 /\ pc' = [pc EXCEPT ![j] = "extras"]
                 /\ UNCHANGED result
              \/ /\ Bail(j, "Err_item")
                 /\ UNCHANGED disk
         [] config[j].processing_mode = "NoProcess" ->
              /\ pc' = [pc EXCEPT ![j] = "extras"]
              /\ UNCHANGED <<disk, result>>
         [] config[j].processing_mode = "Trim" ->
              \/ /\ pc' = [pc EXCEPT ![j] = "spawn"]
                 /\ UNCHANGED <<disk, result>>
              \/ /\ Bail(j, "Err_item")     \* self.ffmpeg.probe(..)? fails
                 /\ UNCHANGED disk
         [] OTHER ->
              /\ pc' = [pc EXCEPT ![j] = "spawn"]
              /\ UNCHANGED <<disk, result>>
    /\ inv' = [inv EXCEPT ![j] = 1]
    /\ UNCHANGED <<running_jobs, config, progress, cancel_flag, idx, child,
                   path_mapping, response>>
    /\ UNCHANGED <<cacheVars, analyzeVars, loaderVars, rangeVars, callVars>>

\* trim_lossless / transcode: cmd.spawn()?
ffmpeg_spawn(j) ==
    /\ pc[j] = "spawn"
    /\ \/ /\ child' = [child EXCEPT ![j] = "running"]
          /\ pc' = [pc EXCEPT ![j] = "poll"]
          /\ UNCHANGED result
       \/ /\ Bail(j, "Err_item")
          /\ UNCHANGED child
    /\ UNCHANGED <<running_jobs, config, progress, cancel_flag, idx, inv,
                   path_mapping, disk, response>>
    /\ UNCHANGED <<cacheVars, analyzeVars, loaderVars, rangeVars, callVars>>

\* the transcoder process ends by itself, writing its output if it succeeds
child_exit(j) ==
    /\ child[j] = "running"
    /\ \/ /\ child' = [child EXCEPT ![j] = "exit_ok"]
          /\ disk' = [disk EXCEPT ![j].outputs =
                         @ \cup {<<idx[j], OutputPart(config[j], Item(j), inv[j])>>}]
       \/ /\ child' = [child EXCEPT ![j] = "exit_fail"]
          /\ UNCHANGED disk
    /\ UNCHANGED <<running_jobs, config, progress, cancel_flag, pc, idx, inv,
                   path_mapping, result, response>>
    /\ UNCHANGED <<cacheVars, analyzeVars, loaderVars, rangeVars, callVars>>

\* one iteration of `while let Ok(None) = child.try_wait()` with the process
\* still running and the flag set: kill and bail (with the flag clear the
\* iteration sleeps and changes nothing)
ffmpeg_poll_cancel(j) ==
    /\ pc[j] = "poll"
    /\ child[j] = "running"
    /\ cancel_flag[j]
    /\ child' = [child EXCEPT ![j] = "killed"]
    /\ Bail(j, "Err_killed")
    /\ UNCHANGED <<running_jobs, config, progress, cancel_flag, idx, inv,
                   path_mapping, disk, response>>
    /\ UNCHANGED <<cacheVars, analyzeVars, loaderVars, rangeVars, callVars>>

\* the process has ended: child.wait_with_output()? and the exit status
ffmpeg_wait(j) ==
    /\ pc[j] = "poll"
    /\ child[j] \in {"exit_ok", "exit_fail"}
    /\ child' = [child EXCEPT ![j] = "none"]
    /\ IF child[j] = "exit_fail"
       THEN /\ Bail(j, "Err_item")
            /\ UNCHANGED inv
       ELSE /\ IF inv[j] < Invocations(config[j], Item(j))
               THEN /\ inv' = [inv EXCEPT ![j] = @ + 1]
                    /\ pc' = [pc EXCEPT ![j] = "spawn"]
               ELSE /\ pc' = [pc EXCEPT ![j] = "extras"]
                    /\ UNCHANGED inv
            /\ UNCHANGED result
    /\ UNCHANGED <<running_jobs, config, progress, cancel_flag, idx,
                   path_mapping, disk, response>>
    /\ UNCHANGED <<cacheVars, analyzeVars, loaderVars, rangeVars, callVars>>

\* copy_sidecars()? and process_proxy()?
run_extras(j) ==
    /\ pc[j] = "extras"
    /\ \/ /\ pc' = [pc EXCEPT ![j] = "commit"]
          /\ UNCHANGED result
       \/ /\ config[j].copy_extras
          /\ Bail(j, "Err_item")
    /\ UNCHANGED <<running_jobs, config, progress, cancel_flag, idx, inv, child,
                   path_mapping, disk, response>>
    /\ UNCHANGED <<cacheVars, analyzeVars, loaderVars, rangeVars, callVars>>

\* variant: files_processed advances once per range of the media
run_commit_PerRange(j) ==
    /\ pc[j] = "commit"
    /\ path_mapping' = [path_mapping EXCEPT ![j] = @ \cup {<<idx[j], 0>>}]
    /\ progress' = [progress EXCEPT ![j] =
          [increment_processed(@, Item(j).size) EXCEPT
              !.files_processed = progress[j].files_processed + Item(j).nranges]]
    /\ idx' = [idx EXCEPT ![j] = @ + 1]
    /\ pc' = [pc EXCEPT ![j] = "loop"]
    /\ UNCHANGED <<running_jobs, config, cancel_flag, inv, child, disk, result, response>>
    /\ UNCHANGED <<cacheVars, analyzeVars, loaderVars, rangeVars, callVars>>

\* path_mapping.insert(source, output_path) and increment_processed(file_size)
run_commit(j) ==
    /\ pc[j] = "commit"
    /\ path_mapping' = [path_mapping EXCEPT ![j] = @ \cup {<<idx[j], 0>>}]
    /\ progress' = [progress EXCEPT ![j] = increment_processed(@, Item(j).size)]
    /\ idx' = [idx EXCEPT ![j] = @ + 1]
    /\ pc' = [pc EXCEPT ![j] = "loop"]
    /\ UNCHANGED <<running_jobs, config, cancel_flag, inv, child, disk, result, response>>
    /\ UNCHANGED <<cacheVars, analyzeVars, loaderVars, rangeVars, callVars>>

\* variant: the status is Completed already when phase 5 begins
run_writing_Completed(j) ==
    /\ pc[j] = "writing"
    /\ progress' = [progress EXCEPT ![j] = update_status(@, "Completed")]
    /\ pc' = [pc EXCEPT ![j] = "write_project"]
    /\ UNCHANGED <<running_jobs, config, cancel_flag, idx, inv, child, path_mapping,
                   disk, result, response>>
    /\ UNCHANGED <<cacheVars, analyzeVars, loaderVars, rangeVars, callVars>>

\* Phase 5: update_status(WritingProject)
run_writing(j) ==
    /\ pc[j] = "writing"
    /\ progress' = [progress EXCEPT ![j] = update_status(@, "WritingProject")]
    /\ pc' = [pc EXCEPT ![j] = "write_project"]
    /\ UNCHANGED <<running_jobs, config, cancel_flag, idx, inv, child, path_mapping,
                   disk, result, response>>
    /\ UNCHANGED <<cacheVars, analyzeVars, loaderVars, rangeVars, callVars>>

\* write_project_file: read, replace, create and write the new project
write_project_file(j) ==
    /\ pc[j] = "write_project"
    /\ \/ /\ disk' = [disk EXCEPT ![j].project = TRUE]
          /\ pc' = [pc EXCEPT ![j] = "write_manifest"]
          /\ UNCHANGED result
       \/ /\ Bail(j, "Err_write")
          /\ UNCHANGED disk
    /\ UNCHANGED <<running_jobs, config, progress, cancel_flag, idx, inv, child,
                   path_mapping, response>>
    /\ UNCHANGED <<cacheVars, analyzeVars, loaderVars, rangeVars, callVars>>

\* write_manifest()? at the end of write_project_file
write_manifest(j) ==
    /\ pc[j] = "write_manifest"
    /\ \/ /\ disk' = [disk EXCEPT ![j].manifest = TRUE]
          /\ pc' = [pc EXCEPT ![j] = "complete"]
          /\ UNCHANGED result
       \/ /\ Bail(j, "Err_write")
          /\ UNCHANGED disk
    /\ UNCHANGED <<running_jobs, config, progress, cancel_flag, idx, inv, child,
                   path_mapping, response>>
    /\ UNCHANGED <<cacheVars, analyzeVars, loaderVars, rangeVars, callVars>>

\* update_status(Completed) and Ok(ConsolidationResult)
run_complete(j) ==
    /\ pc[j] = "complete"
    /\ progress' = [progress EXCEPT ![j] = update_status(@, "Completed")]
    /\ pc' = [pc EXCEPT ![j] = "done"]
    /\ result' = [result EXCEPT ![j] = [val |-> "Ok", at |-> "complete"]]
    /\ UNCHANGED <<running_jobs, config, cancel_flag, idx, inv, child, path_mapping,
                   disk, response>>
    /\ UNCHANGED <<cacheVars, analyzeVars, loaderVars, rangeVars, callVars>>

\* ------------------------------------------------------------------------
\* Project cache (commands.rs): AppState.project_cache and the commands
\* that go through get_project
\* ------------------------------------------------------------------------
MaxParses == 3

Paths == {"a.prproj", "b.prproj"}
\* two commands in flight at a time on the async runtime
Threads == {1, 2}
\* get_project_info, get_sequences, get_media_items, analyze_media_usage and
\* get_unused_media all begin with state.get_project(&path)
CacheCommands == {"open_project", "get_project_info"}

CacheInit ==
    /\ project_cache = [p \in Paths |-> 0]
    /\ parses = 0
    /\ tcmd = [t \in Threads |-> "idle"]
    /\ tpath = [t \in Threads |-> "a.prproj"]
    /\ tpc = [t \in Threads |-> "idle"]
    /\ tmark = [t \in Threads |-> 0]
    /\ tproject = [t \in Threads |-> 0]

\* a command is invoked on a runtime thread
call_command(t, cmd, path) ==
    /\ tpc[t] = "idle"
    /\ tcmd' = [tcmd EXCEPT ![t] = cmd]
    /\ tpath' = [tpath EXCEPT ![t] = path]
    /\ tmark' = [tmark EXCEPT ![t] = parses]
    /\ tproject' = [tproject EXCEPT ![t] = 0]
    /\ tpc' = [tpc EXCEPT ![t] = IF cmd = "open_project" THEN "exists" ELSE "read"]
    /\ UNCHANGED <<project_cache, parses>>
    /\ UNCHANGED <<engineVars, analyzeVars, loaderVars, rangeVars, callVars>>

\* open_project: `if !path_buf.exists()` returns Err("Project file not found")
open_project_exists(t) ==
    /\ tpc[t] = "exists"
    /\ \/ tpc' = [tpc EXCEPT ![t] = "invalidate"]
       \/ tpc' = [tpc EXCEPT ![t] = "return"]
    /\ UNCHANGED <<project_cache, parses, tcmd, tpath, tmark, tproject>>
    /\ UNCHANGED <<engineVars, analyzeVars, loaderVars, rangeVars, callVars>>

\* open_project: state.invalidate_project(&path)
invalidate_project(t) ==
    /\ tpc[t] = "invalidate"
    /\ project_cache' = [project_cache EXCEPT ![tpath[t]] = 0]
    /\ tpc' = [tpc EXCEPT ![t] = "read"]
    /\ UNCHANGED <<parses, tcmd, tpath, tmark, tproject>>
    /\ UNCHANGED <<engineVars, analyzeVars, loaderVars, rangeVars, callVars>>

\* get_project: the lookup under the read lock
get_project_read(t) ==
    /\ tpc[t] = "read"
    /\ IF project_cache[tpath[t]] # 0
       THEN /\ tproject' = [tproject EXCEPT ![t] = project_cache[tpath[t]]]
            /\ tpc' = [tpc EXCEPT ![t] = "return"]
       ELSE /\ tpc' = [tpc EXCEPT ![t] = "parse"]
            /\ UNCHANGED tproject
    /\ UNCHANGED <<project_cache, parses, tcmd, tpath, tmark>>
    /\ UNCHANGED <<engineVars, analyzeVars, loaderVars, rangeVars, callVars>>

\* get_project: parser.parse() begins, outside any lock
get_project_parse(t) ==
    /\ tpc[t] = "parse"
    /\ parses < MaxParses
    /\ parses' = parses + 1
    /\ tproject' = [tproject EXCEPT ![t] = parses + 1]
    /\ tpc' = [tpc EXCEPT ![t] = "insert"]
    /\ UNCHANGED <<project_cache, tcmd, tpath, tmark>>
    /\ UNCHANGED <<engineVars, analyzeVars, loaderVars, rangeVars, callVars>>

\* get_project: the parse ends; Err returns at once, Ok inserts under the
\* write lock
get_project_insert(t) ==
    /\ tpc[t] = "insert"
    /\ \/ /\ project_cache' = [project_cache EXCEPT ![tpath[t]] = tproject[t]]
          /\ UNCHANGED tproject
       \/ /\ tproject' = [tproject EXCEPT ![t] = 0]
          /\ UNCHANGED project_cache
    /\ tpc' = [tpc EXCEPT ![t] = "return"]
    /\ UNCHANGED <<parses, tcmd, tpath, tmark>>
    /\ UNCHANGED <<engineVars, analyzeVars, loaderVars, rangeVars, callVars>>

\* the command returns its result to the caller
command_return(t) ==
    /\ tpc[t] = "return"
    /\ tpc' = [tpc EXCEPT ![t] = "idle"]
    /\ tcmd' = [tcmd EXCEPT ![t] = "idle"]
    /\ UNCHANGED <<project_cache, parses, tpath, tmark, tproject>>
    /\ UNCHANGED <<engineVars, analyzeVars, loaderVars, rangeVars, callVars>>

\* ------------------------------------------------------------------------
\* Sequence analyzer (sequence_analyzer.rs)
\* ------------------------------------------------------------------------
MaxClips == 1

\* Ticks are scaled so that one frame at 24 fps is one tick
\* (TICKS_PER_SECOND / 24 = 1); I64_MAX stands for i64::MAX.
TICKS_PER_SECOND == 24
I64_MAX == 1000000

Min(a, b) == IF a <= b THEN a ELSE b
Max(a, b) == IF a >= b THEN a ELSE b

TimeRange_new(start, end) ==
    [start_ticks |-> Min(start, end), end_ticks |-> Max(start, end)]

with_handles(r, handle_ticks, max_duration) ==
    [start_ticks |-> Max(r.start_ticks - handle_ticks, 0),
     end_ticks |-> Min(r.end_ticks + handle_ticks, max_duration)]

\* merge_with: the merged range, or NoRange for Option::None
NoRange == [start_ticks |-> -1, end_ticks |-> -2]

merge_with(self, other, gap_tolerance) ==
    IF /\ self.end_ticks + gap_tolerance >= other.start_ticks
       /\ other.end_ticks + gap_tolerance >= self.start_ticks
    THEN TimeRange_new(Min(self.start_ticks, other.start_ticks),
                       Max(self.end_ticks, other.end_ticks))
    ELSE NoRange

duration(r) == r.end_ticks - r.start_ticks

\* sorted.sort_by_key(|r| r.start_ticks): a stable sort, by insertion
RECURSIVE sort_by_key(_)
sort_by_key(ranges) ==
    IF Len(ranges) <= 1 THEN ranges
    ELSE LET sorted == sort_by_key(SubSeq(ranges, 1, Len(ranges) - 1))
             r == ranges[Len(ranges)]
             before == { i \in 1..Len(sorted) : sorted[i].start_ticks <= r.start_ticks }
             k == Cardinality(before)
         IN  SubSeq(sorted, 1, k) \o <<r>> \o SubSeq(sorted, k + 1, Len(sorted))

RECURSIVE merge_loop(_, _, _, _)
\* the loop over sorted.into_iter().skip(1) that pushes every range
merge_loop_PushAll(sorted, i, optimized, gap_tolerance) ==
    IF i > Len(sorted) THEN optimized
    ELSE merge_loop(sorted, i + 1, Append(optimized, sorted[i]), gap_tolerance)

\* the loop over sorted.into_iter().skip(1) from index i on
merge_loop(sorted, i, optimized, gap_tolerance) ==
    IF i > Len(sorted) THEN optimized
    ELSE LET last == optimized[Len(optimized)]
             merged == merge_with(last, sorted[i], gap_tolerance)
         IN  IF merged # NoRange
             THEN merge_loop(sorted, i + 1,
                             [optimized EXCEPT ![Len(optimized)] = merged], gap_tolerance)
             ELSE merge_loop(sorted, i + 1, Append(optimized, sorted[i]), gap_tolerance)

\* optimize_time_ranges without the sort
optimize_time_ranges_NoSort(ranges, gap_tolerance) ==
    IF ranges = << >> THEN << >>
    ELSE merge_loop(ranges, 2, <<ranges[1]>>, gap_tolerance)

optimize_time_ranges(ranges, gap_tolerance) ==
    IF ranges = << >> THEN << >>
    ELSE LET sorted == sort_by_key(ranges)
         IN  merge_loop(sorted, 2, <<sorted[1]>>, gap_tolerance)

\* TrackClip values the analyzer is run on
Clip(type, ref, parent, comps, angs, nested, inp, outp) ==
    [object_id |-> "", clip_type |-> type, media_ref |-> ref, parent_id |-> parent,
     components |-> comps,
     angles |-> angs, sequence_id |-> nested, in_point_ticks |-> inp,
     out_point_ticks |-> outp]

Angle(ref, active) == [media_ref |-> ref, is_active |-> active]

\* Clip track items as the loader sees them: the media GUID the resolver
\* found for the item ("None": not in clip_to_media), the Start and End
\* children of the item, and the Clip object reached through SubClip ->
\* Clip: whether it has an AdjustmentLayer / SyntheticMedia child, and its
\* InPoint and OutPoint children.
TrackItems ==
    { [object_id |-> "T1", media_uid |-> "M1", Start |-> 2, End |-> 6,
       is_synthetic |-> FALSE, InPoint |-> 1, OutPoint |-> 5],
      [object_id |-> "T2", media_uid |-> "M2", Start |-> 0, End |-> 4,
       is_synthetic |-> TRUE, InPoint |-> 0, OutPoint |-> 0],
      [object_id |-> "T3", media_uid |-> "None", Start |-> 0, End |-> 4,
       is_synthetic |-> TRUE, InPoint |-> 0, OutPoint |-> 0] }

get_clip_in_out_points(item, timeline_duration) ==
    IF item.is_synthetic /\ timeline_duration > 0 THEN <<0, timeline_duration>>
    ELSE IF ~item.is_synthetic /\ item.OutPoint > item.InPoint
         THEN <<item.InPoint, item.OutPoint>>
    ELSE IF timeline_duration > 0 THEN <<0, timeline_duration>>
    ELSE <<0, 0>>

\* the TrackClip populate_sequence_tracks builds for a track item of
\* clip_to_media
populate_clip(item) ==
    LET io == get_clip_in_out_points(item, item.End - item.Start)
    IN  [Clip("Standard", item.media_uid, "", << >>, << >>, "", io[1], io[2])
            EXCEPT !.object_id = item.object_id]

LoadedClips == { populate_clip(item) : item \in { i \in TrackItems : i.media_uid # "None" } }

ClipSet ==
    LoadedClips \cup
    { Clip("Standard", "None", "", << >>, << >>, "", 0, 2),
      Clip("Standard", "M1", "", << >>, << >>, "", 1, 3),
      Clip("Standard", "M2", "", << >>, << >>, "", 5, 4),
      Clip("Standard", "X1", "", << >>, << >>, "", 0, 1),
      Clip("Subclip", "None", "M1", << >>, << >>, "", 6, 8),
      Clip("Subclip", "None", "X1", << >>, << >>, "", 0, 1),
      Clip("MergedClip", "M1", "", <<"M2">>, << >>, "", 2, 4),
      Clip("MergedClip", "None", "", <<"M1", "X1">>, << >>, "", 0, 2),
      Clip("Multicam", "None", "", << >>, <<Angle("M1", TRUE), Angle("M2", FALSE)>>, "", 0, 3),
      Clip("Multicam", "None", "", << >>, <<Angle("X1", FALSE), Angle("M2", TRUE)>>, "", 1, 2),
      Clip("Nested", "None", "", << >>, << >>, "S1", 0, 0),
      Clip("Nested", "None", "", << >>, << >>, "S2", 0, 0),
      Clip("Adjustment", "M1", "", << >>, << >>, "", 0, 9) }

ClipLists(n) == UNION { [1..k -> ClipSet] : k \in 0..n }

Sequence(id, video, audio, nested) ==
    [object_id |-> id, video_tracks |-> video, audio_tracks |-> audio,
     nested_sequences |-> nested]

\* project.media_files as guid -> duration_ticks (the loader leaves every
\* duration at 0)
MediaFileMaps == { [g \in {"M1", "M2"} |-> 0], [g \in {"M1", "M2"} |-> 10] }

Projects ==
    { [media_files |-> mf,
       sequences |-> << Sequence("S1", <<v1>>, a1, n1), Sequence("S2", <<v2>>, << >>, << >>) >>] :
        mf \in MediaFileMaps,
        v1 \in ClipLists(MaxClips),
        a1 \in { << >>, << <<Clip("Standard", "M2", "", << >>, << >>, "", 0, 1)>> >> },
        n1 \in { << >>, <<"S2">> },
        v2 \in ClipLists(1) }

\* the last analyzer call: its arguments (opts, sequence_ids), the sequences
\* whose tracks it walked, in order, and the MediaUsageAnalysis it returned
NoOptions == [handle_frames |-> 0, include_unused_multicam_angles |-> TRUE]
NoAnalysis == [called |-> FALSE, opts |-> NoOptions, sequence_ids |-> << >>,
               walked |-> << >>, used_media |-> << >>, unused_media |-> {},
               sequences_analyzed |-> << >>]

AnalyzeInit ==
    /\ project \in Projects
    /\ analysis = NoAnalysis

\* add_media_usage: the entry of used_media for media_id after the call
add_media_usage(proj, opts, media_id, clip, sequence_id, used, is_multicam, is_merged) ==
    LET time_range == TimeRange_new(clip.in_point_ticks, clip.out_point_ticks)
        media_duration == IF media_id \in DOMAIN proj.media_files
                          THEN proj.media_files[media_id] ELSE I64_MAX
        handle_ticks == opts.handle_frames * (TICKS_PER_SECOND \div 24)
        trh == with_handles(time_range, handle_ticks, media_duration)
        e0 == IF media_id \in DOMAIN used THEN used[media_id]
              ELSE [object_id |-> media_id, usage_count |-> 0, time_ranges |-> << >>,
                    merged_range |-> trh, used_in_sequences |-> << >>,
                    is_multicam_angle |-> is_multicam, is_merged_component |-> is_merged]
        e1 == [e0 EXCEPT
                 !.usage_count = @ + 1,
                 !.time_ranges = Append(@, trh),
                 !.used_in_sequences =
                     IF \E i \in 1..Len(@) : @[i] = sequence_id THEN @
                     ELSE Append(@, sequence_id),
                 !.merged_range =
                     TimeRange_new(Min(@.start_ticks, trh.start_ticks),
                                   Max(@.end_ticks, trh.end_ticks)),
                 !.is_multicam_angle = @ \/ is_multicam,
                 !.is_merged_component = @ \/ is_merged]
    IN  [k \in (DOMAIN used) \cup {media_id} |-> IF k = media_id THEN e1 ELSE used[k]]

FindSequence(proj, sequence_id) ==
    LET hits == { i \in 1..Len(proj.sequences) : proj.sequences[i].object_id = sequence_id }
    IN  IF hits = {} THEN 0 ELSE CHOOSE i \in hits : \A k \in hits : i <= k

RECURSIVE analyze_sequence_recursive(_, _, _, _)
RECURSIVE analyze_clips(_, _, _, _, _, _)
RECURSIVE analyze_tracks(_, _, _, _, _, _)
RECURSIVE analyze_ids(_, _, _, _, _)
RECURSIVE add_components(_, _, _, _, _, _)
RECURSIVE add_angles(_, _, _, _, _, _)

\* the body of `for component_id in components` from index i on
add_components(proj, opts, clip, sequence_id, i, used) ==
    IF i > Len(clip.components) THEN used
    ELSE LET u1 == IF clip.media_ref # "None"
                   THEN add_media_usage(proj, opts, clip.media_ref, clip, sequence_id,
                                        used, FALSE, TRUE)
                   ELSE used
             u2 == add_media_usage(proj, opts, clip.components[i], clip, sequence_id,
                                   u1, FALSE, TRUE)
         IN  add_components(proj, opts, clip, sequence_id, i + 1, u2)

\* the loop over the angles without the test of is_active and the option
add_angles_AllAngles(proj, opts, clip, sequence_id, i, used) ==
    IF i > Len(clip.angles) THEN used
    ELSE LET a == clip.angles[i]
             u1 == add_media_usage(proj, opts, a.media_ref, clip, sequence_id,
                                   used, TRUE, FALSE)
         IN  add_angles(proj, opts, clip, sequence_id, i + 1, u1)

\* the body of `for angle in angles` from index i on
add_angles(proj, opts, clip, sequence_id, i, used) ==
    IF i > Len(clip.angles) THEN used
    ELSE LET a == clip.angles[i]
             u1 == IF a.is_active \/ opts.include_unused_multicam_angles
                   THEN add_media_usage(proj, opts, a.media_ref, clip, sequence_id,
                                        used, TRUE, FALSE)
                   ELSE used
         IN  add_angles(proj, opts, clip, sequence_id, i + 1, u1)

\* analyze_clip with the Nested arm doing nothing
analyze_clip_SkipNested(proj, opts, clip, sequence_id, st) ==
    CASE clip.clip_type = "Standard" ->
            IF clip.media_ref # "None"
            THEN [st EXCEPT !.used = add_media_usage(proj, opts, clip.media_ref, clip,
                                                     sequence_id, @, FALSE, FALSE)]
            ELSE st
      [] clip.clip_type = "Subclip" ->
            [st EXCEPT !.used = add_media_usage(proj, opts, clip.parent_id, clip,
                                                sequence_id, @, FALSE, FALSE)]
      [] clip.clip_type = "MergedClip" ->
            [st EXCEPT !.used = add_components(proj, opts, clip, sequence_id, 1, @)]
      [] clip.clip_type = "Multicam" ->
            [st EXCEPT !.used = add_angles(proj, opts, clip, sequence_id, 1, @)]
      [] OTHER -> st

\* st = [used |-> used_media, analyzed |-> the HashSet, walked |-> the
\* sequences whose tracks were walked, in order]
analyze_clip(proj, opts, clip, sequence_id, st) ==
    CASE clip.clip_type = "Standard" ->
            IF clip.media_ref # "None"
            THEN [st EXCEPT !.used = add_media_usage(proj, opts, clip.media_ref, clip,
                                                     sequence_id, @, FALSE, FALSE)]
            ELSE st
      [] clip.clip_type = "Subclip" ->
            [st EXCEPT !.used = add_media_usage(proj, opts, clip.parent_id, clip,
                                                sequence_id, @, FALSE, FALSE)]
      [] clip.clip_type = "MergedClip" ->
            [st EXCEPT !.used = add_components(proj, opts, clip, sequence_id, 1, @)]
      [] clip.clip_type = "Multicam" ->
            [st EXCEPT !.used = add_angles(proj, opts, clip, sequence_id, 1, @)]
      [] clip.clip_type = "Nested" ->
            analyze_sequence_recursive(proj, opts, clip.sequence_id, st)
      [] OTHER -> st

analyze_clips(proj, opts, clips, sequence_id, i, st) ==
    IF i > Len(clips) THEN st
    ELSE analyze_clips(proj, opts, clips, sequence_id, i + 1,
                       analyze_clip(proj, opts, clips[i], sequence_id, st))

analyze_tracks(proj, opts, tracks, sequence_id, i, st) ==
    IF i > Len(tracks) THEN st
    ELSE analyze_tracks(proj, opts, tracks, sequence_id, i + 1,
                        analyze_clips(proj, opts, tracks[i], sequence_id, 1, st))

analyze_ids(proj, opts, ids, i, st) ==
    IF i > Len(ids) THEN st
    ELSE analyze_ids(proj, opts, ids, i + 1,
                     analyze_sequence_recursive(proj, opts, ids[i], st))

analyze_sequence_recursive(proj, opts, sequence_id, st) ==
    IF sequence_id \in st.analyzed THEN st
    ELSE LET st1 == [st EXCEPT !.analyzed = @ \cup {sequence_id}]
             k == FindSequence(proj, sequence_id)
         IN  IF k = 0 THEN st1
             ELSE LET sequence == proj.sequences[k]
                      st2 == [st1 EXCEPT !.walked = Append(@, sequence_id)]
                      st3 == analyze_tracks(proj, opts, sequence.video_tracks,
                                            sequence_id, 1, st2)
                      st4 == analyze_tracks(proj, opts, sequence.audio_tracks,
                                            sequence_id, 1, st3)
                  IN  analyze_ids(proj, opts, sequence.nested_sequences, 1, st4)

\* HashSet::into_iter().collect(): the elements once each, in any order
into_iter_collect(S) ==
    { q \in [1..Cardinality(S) -> S] : \A i, k \in DOMAIN q : q[i] = q[k] => i = k }

\* the results analyze_sequences can return, one for each iteration order of
\* the HashSet analyzed_sequences
analyze_sequences(proj, opts, sequence_ids) ==
    LET st == analyze_ids(proj, opts, sequence_ids, 1,
                          [used |-> << >>, analyzed |-> {}, walked |-> << >>])
        all_media_ids == DOMAIN proj.media_files
        used_ids == DOMAIN st.used
    IN  { [called |-> TRUE,
           opts |-> opts,
           sequence_ids |-> sequence_ids,
           walked |-> st.walked,
           used_media |-> st.used,
           unused_media |-> all_media_ids \ used_ids,
           sequences_analyzed |-> sa] : sa \in into_iter_collect(st.analyzed) }

analyze_all(proj, opts) ==
    analyze_sequences(proj, opts,
                      [i \in 1..Len(proj.sequences) |-> proj.sequences[i].object_id])

AnalyzerOptions == [handle_frames : {0, 1}, include_unused_multicam_angles : BOOLEAN]
SequenceIdLists == { <<"S1">>, <<"S2">>, <<"S2", "S1", "S9">> }

\* commands::analyze_media_usage / get_unused_media with sequence ids (each
\* call builds a fresh analyzer: one call per behaviour)
AnalyzeSequences ==
    /\ ~analysis.called
    /\ \E opts \in AnalyzerOptions, ids \in SequenceIdLists :
          analysis' \in analyze_sequences(project, opts, ids)
    /\ UNCHANGED project
    /\ UNCHANGED <<engineVars, cacheVars, loaderVars, rangeVars, callVars>>

\* the same with an empty id list: analyze_all
AnalyzeAll ==
    /\ ~analysis.called
    /\ \E opts \in AnalyzerOptions : analysis' \in analyze_all(project, opts)
    /\ UNCHANGED project
    /\ UNCHANGED <<engineVars, cacheVars, loaderVars, rangeVars, callVars>>

\* ------------------------------------------------------------------------
\* TimeRange functions applied to lists of ranges
\* ------------------------------------------------------------------------
MaxRanges == 3

\* The lists of TimeRange values of the program: the time_ranges of one
\* media, each built by TimeRange::new from the in and out points of a clip
\* and passed through with_handles with the handle ticks of the analyzer and
\* the duration of the media (I64_MAX for an unknown media; start is above
\* end when the duration is below the start).
InOutTicks == 0..3
NewRanges == { TimeRange_new(a, b) : a, b \in InOutTicks }
HandleTicks == {0, 1}
MediaDurations == {0, 1, I64_MAX}
RangeFamilies ==
    { { with_handles(r, h, d) : r \in NewRanges } : h \in HandleTicks, d \in MediaDurations }
GapTolerances == {-1, 0, 2}

RangesInit ==
    /\ \E family \in RangeFamilies :
          range_args \in [ranges : UNION { [1..n -> family] : n \in 0..MaxRanges },
                          gap_tolerance : GapTolerances]
    /\ range_result = [op |-> "none", val |-> << >>]

RangesIdle ==
    /\ range_args = [ranges |-> << >>, gap_tolerance |-> 0]
    /\ range_result = [op |-> "none", val |-> << >>]

\* optimize_time_ranges(&ranges, gap_tolerance)
Optimize ==
    /\ range_result.op = "none"
    /\ range_result' = [op |-> "optimize",
                        val |-> optimize_time_ranges(range_args.ranges,
                                                     range_args.gap_tolerance)]
    /\ UNCHANGED range_args
    /\ UNCHANGED <<engineVars, cacheVars, analyzeVars, loaderVars, callVars>>

\* a.merge_with(&b, gap_tolerance) and b.merge_with(&a, gap_tolerance) for
\* the first two ranges of the list
MergeWith ==
    /\ range_result.op = "none"
    /\ Len(range_args.ranges) >= 2
    /\ range_result' = [op |-> "merge_with",
                        val |-> << merge_with(range_args.ranges[1], range_args.ranges[2],
                                              range_args.gap_tolerance),
                                   merge_with(range_args.ranges[2], range_args.ranges[1],
                                              range_args.gap_tolerance) >>]
    /\ UNCHANGED range_args
    /\ UNCHANGED <<engineVars, cacheVars, analyzeVars, loaderVars, callVars>>

\* ------------------------------------------------------------------------
\* Project rewrite (consolidation.rs): the path replacement of
\* write_project_file. Strings are sequences of characters.
\* ------------------------------------------------------------------------
MaxMappings == 2
MaxOccurrences == 2

\* s starts with pat
starts_with(s, pat) ==
    /\ Len(pat) <= Len(s)
    /\ SubSeq(s, 1, Len(pat)) = pat

\* str::contains
RECURSIVE contains(_, _)
contains(s, pat) ==
    \/ starts_with(s, pat)
    \/ s # << >> /\ contains(Tail(s), pat)

\* str::replace(from, to): every non-overlapping match of from, left to
\* right, becomes to (from is a non-empty path here)
RECURSIVE str_replace(_, _, _)
str_replace(s, from, to) ==
    IF s = << >> THEN << >>
    ELSE IF starts_with(s, from)
    THEN to \o str_replace(SubSeq(s, Len(from) + 1, Len(s)), from, to)
    ELSE <<Head(s)>> \o str_replace(Tail(s), from, to)

\* str::replace(char, char)
char_replace(s, from, to) == [i \in DOMAIN s |-> IF s[i] = from THEN to ELSE s[i]]

\* one iteration of the loop over path_mapping: the three replacements
replace_path(content, original_str, new_str) ==
    LET c1 == str_replace(content, original_str, new_str)
        c2 == str_replace(c1, char_replace(original_str, "/", "\\"),
                              char_replace(new_str, "/", "\\"))
    IN  str_replace(c2, char_replace(original_str, "\\", "/"),
                        char_replace(new_str, "\\", "/"))

\* the loop over path_mapping, in the order the entries are iterated
RECURSIVE replace_paths(_, _)
replace_paths(content, entries) ==
    IF entries = << >> THEN content
    ELSE replace_paths(replace_path(content, entries[1][1], entries[1][2]), Tail(entries))

\* the orders a HashMap of these entries can be iterated in
iteration_orders(mapping) ==
    { q \in [1..Cardinality(mapping) -> mapping] :
        \A i, k \in DOMAIN q : i # k => q[i] # q[k] }

\* Source paths of media files: a file in the root directory, files in a
\* directory d (one path a prefix of another), a file in a directory named
\* like the media folder of the output, and a path written with backslashes.
SourcePaths ==
    { <<"/", "a">>, <<"/", "d", "/", "a">>, <<"/", "d", "/", "b">>,
      <<"/", "d", "/", "a", "b">>,
      <<"/", "M", "/", "a">>, <<"\\", "d", "\\", "c">> }

\* Path::file_name: what follows the last separator
RECURSIVE file_name(_)
file_name(path) ==
    IF path = << >> \/ path[Len(path)] \in {"/", "\\"} THEN << >>
    ELSE file_name(SubSeq(path, 1, Len(path) - 1)) \o <<path[Len(path)]>>

\* calculate_output_path with the Flat layout: <output_path>/Media/<file
\* name>, joined with the separator of the platform
OutputPaths(path) ==
    { <<sep, "o", sep, "M", sep>> \o file_name(path) : sep \in {"/", "\\"} }

\* path_mapping: source paths with distinct file names, each mapped to its
\* output path
PathMappings ==
    { m \in SUBSET UNION { { <<p, n>> : n \in OutputPaths(p) } : p \in SourcePaths } :
        /\ Cardinality(m) \in 1..MaxMappings
        /\ \A e1, e2 \in m : e1 # e2 => file_name(e1[1]) # file_name(e2[1]) }

\* the three slash forms of a path: as written, with backslashes, with
\* forward slashes
SlashForms(path) ==
    { path, char_replace(path, "/", "\\"), char_replace(path, "\\", "/") }

\* The project XML: markup with the source paths of the mapping in it, each
\* occurrence in one of the slash forms
Occurrences(mapping) ==
    UNION { [1..n -> UNION { SlashForms(e[1]) : e \in mapping }] : n \in 1..MaxOccurrences }

RECURSIVE Xml(_)
Xml(occurrences) ==
    IF occurrences = << >> THEN <<"<">>
    ELSE <<"<">> \o Head(occurrences) \o Xml(Tail(occurrences))

RewriteInit ==
    /\ \E mapping \in PathMappings :
          call_args \in [path_mapping : {mapping}, occurrences : Occurrences(mapping)]
    /\ call_result = [op |-> "none", val |-> << >>]

\* write_project_file: the replacement loop over the decoded project
Rewrite ==
    /\ call_result.op = "none"
    /\ \E entries \in iteration_orders(call_args.path_mapping) :
          call_result' = [op |-> "rewrite",
                          val |-> replace_paths(Xml(call_args.occurrences), entries)]
    /\ UNCHANGED call_args
    /\ UNCHANGED <<engineVars, cacheVars, analyzeVars, loaderVars, rangeVars>>

\* ------------------------------------------------------------------------
\* Trim of one media (consolidation.rs): the Trim arm of run() for one used
\* media, from the clips that use it to the transcoder invocations.
\* Seconds are counted in units of 1 / TICKS_PER_SECOND.
\* ------------------------------------------------------------------------
MaxTrimClips == 2

\* TimeRange::to_seconds
to_seconds(r) == <<r.start_ticks, r.end_ticks>>

\* `seconds as i64`
as_i64(seconds) == seconds \div TICKS_PER_SECOND

\* add_range_suffix: the output named after the range or after its index
add_range_suffix(add_frame_range_to_filename, index, start, end) ==
    IF add_frame_range_to_filename
    THEN <<"range", as_i64(start), as_i64(end)>>
    ELSE <<"index", index + 1>>

\* trim_lossless(input, output, start_seconds, end_seconds): -ss start -t
\* (end - start), written to output
trim_lossless(output, start_seconds, end_seconds) ==
    [output |-> output, ss |-> start_seconds, t |-> end_seconds - start_seconds]

\* the loop of MinimizeDiskSpace and EachClipUnique: one output per range
trim_each_range(ranges, add_frame_range_to_filename) ==
    [i \in DOMAIN ranges |->
        LET sec == to_seconds(ranges[i])
        IN  trim_lossless(add_range_suffix(add_frame_range_to_filename, i - 1, sec[1], sec[2]),
                          sec[1], sec[2])]

\* process_trim: the transcoder invocations, in order (ranges is never empty
\* for a used media)
process_trim(ranges, optimization_mode, add_frame_range_to_filename) ==
    IF Len(ranges) = 1
    THEN << trim_lossless(<<"output_path">>, to_seconds(ranges[1])[1], to_seconds(ranges[1])[2]) >>
    ELSE IF optimization_mode = "KeepSameNumberOfFiles"
    THEN LET starts == { ranges[i].start_ticks : i \in DOMAIN ranges }
             ends == { ranges[i].end_ticks : i \in DOMAIN ranges }
             merged == TimeRange_new(CHOOSE x \in starts : \A y \in starts : x <= y,
                                     CHOOSE x \in ends : \A y \in ends : y <= x)
         IN  << trim_lossless(<<"output_path">>, to_seconds(merged)[1], to_seconds(merged)[2]) >>
    ELSE trim_each_range(ranges, add_frame_range_to_filename)

\* the time_ranges the analyzer stores for a media used by these clips
RECURSIVE usage_of(_, _, _, _)
usage_of(proj, opts, clips, n) ==
    IF n = 0 THEN << >>
    ELSE add_media_usage(proj, opts, "M1",
                         Clip("Standard", "M1", "", << >>, << >>, "", clips[n][1], clips[n][2]),
                         "S1", usage_of(proj, opts, clips, n - 1), FALSE, FALSE)

\* Source ranges [in, out) of clips, in < out: whole seconds and parts of
\* the first second
InOutPoints == {0, 5, 10, 20, 48, 72}
ClipRanges == { c \in InOutPoints \X InOutPoints : c[1] < c[2] }

\* duration_ticks of the MediaFile: 0 as the loader leaves it, or the
\* duration of the file
TrimMediaDurations == {0, 100}

TrimInit ==
    /\ call_args \in [clips : UNION { [1..n -> ClipRanges] : n \in 1..MaxTrimClips },
                      handle_frames : {0, 2},
                      media_duration : TrimMediaDurations,
                      optimization_mode : OptimizationMode,
                      add_frame_range_to_filename : BOOLEAN]
    /\ call_result = [op |-> "none", val |-> << >>]

\* The Trim arm of run() for the media with every step succeeding:
\* optimize_time_ranges(&usage_info.time_ranges, 0), process_trim,
\* path_mapping.insert(.., output_path), increment_processed
TrimItem ==
    /\ call_result.op = "none"
    /\ LET proj == [media_files |-> [g \in {"M1"} |-> call_args.media_duration],
                    sequences |-> << >>]
           opts == [handle_frames |-> call_args.handle_frames,
                    include_unused_multicam_angles |-> FALSE]
           usage_info == usage_of(proj, opts, call_args.clips, Len(call_args.clips))["M1"]
           ranges == optimize_time_ranges(usage_info.time_ranges, 0)
           invocations == process_trim(ranges, call_args.optimization_mode,
                                       call_args.add_frame_range_to_filename)
       IN  call_result' =
               [op |-> "trim",
                val |-> [ranges |-> ranges,
                         invocations |-> invocations,
                         outputs |-> { invocations[i].output : i \in DOMAIN invocations },
                         path_mapping |-> <<"output_path">>,
                         files_processed |-> 1]]
    /\ UNCHANGED call_args
    /\ UNCHANGED <<engineVars, cacheVars, analyzeVars, loaderVars, rangeVars>>

\* ------------------------------------------------------------------------
\* find_common_ancestor (sequence_analyzer.rs). A path is a sequence of
\* separators "/" and names; "." is the current directory.
\* ------------------------------------------------------------------------
MaxPaths == 3

\* the Normal components of a path: its names, without the "." that are not
\* at the start
RECURSIVE normal_components(_, _)
normal_components(path, i) ==
    IF i > Len(path) THEN << >>
    ELSE IF path[i] = "/" \/ (path[i] = "." /\ i > 1) THEN normal_components(path, i + 1)
    ELSE <<path[i]>> \o normal_components(path, i + 1)

\* Path::components(): RootDir for a leading separator, then the names
components(path) ==
    IF path # << >> /\ path[1] = "/"
    THEN <<"RootDir">> \o normal_components(path, 2)
    ELSE normal_components(path, 1)

\* variant: the comparison goes on after a component that differs
RECURSIVE match_len_NoBreak(_, _, _, _)
match_len_NoBreak(comps, first, common_length, i) ==
    IF i > Len(comps) \/ i - 1 >= common_length \/ i - 1 >= Len(first) THEN 0
    ELSE LET rest == match_len_NoBreak(comps, first, common_length, i + 1)
         IN  IF comps[i] = first[i] THEN Max(i, rest) ELSE rest

\* the inner loop: the number of leading components of a path equal to
\* those of the first path, from the i-th on (i counts from 1), up to
\* common_length
RECURSIVE match_len(_, _, _, _)
match_len(comps, first, common_length, i) ==
    IF i > Len(comps) \/ i - 1 >= common_length \/ i - 1 >= Len(first) THEN i - 1
    ELSE IF comps[i] = first[i] THEN match_len(comps, first, common_length, i + 1)
    ELSE i - 1

\* the outer loop: common_length after the first n paths
RECURSIVE common_length(_, _)
common_length(paths, n) ==
    LET first == components(paths[1])
    IN  IF n = 1 THEN Len(first)
        ELSE LET before == common_length(paths, n - 1)
             IN  Min(before, match_len(components(paths[n]), first, before, 1))

\* find_common_ancestor: the components of the common path, or "None"
find_common_ancestor(paths) ==
    IF paths = << >> THEN "None"
    ELSE LET len == common_length(paths, Len(paths))
         IN  IF len = 0 THEN "None"
             ELSE SubSeq(components(paths[1]), 1, len)

\* file paths of media files: absolute paths in two directory trees, one of
\* them written with a doubled separator and a ".", and relative paths
MediaPaths ==
    { <<"/", "a", "/", "x.mov">>, <<"/", "a", "/", "y.mov">>,
      <<"/", "a", "/", "b", "/", "z.wav">>, <<"/", "a", "/", "/", "b", "/", ".", "/", "w.wav">>,
      <<"/", "c", "/", "x.mov">>, <<"a", "/", "x.mov">>, <<"c", "/", "b", "/", "z.wav">>,
      <<"a">> }

AncestorInit ==
    /\ call_args \in [paths : UNION { [1..n -> MediaPaths] : n \in 0..MaxPaths }]
    /\ call_result = [op |-> "none", val |-> << >>]

\* find_common_ancestor(&all_paths)
FindCommonAncestor ==
    /\ call_result.op = "none"
    /\ call_result' = [op |-> "find_common_ancestor",
                       val |-> find_common_ancestor(call_args.paths)]
    /\ UNCHANGED call_args
    /\ UNCHANGED <<engineVars, cacheVars, analyzeVars, loaderVars, rangeVars>>

\* ------------------------------------------------------------------------
\* Output paths (consolidation.rs): calculate_output_path, the files the
\* processing of a media writes, and path_mapping, over the used media of
\* one job in the order run() iterates them.
\* ------------------------------------------------------------------------
MaxSources == 2

\* a media file: the directory of file_path (a path ending in a separator),
\* and the stem and the extension of its file name
SourceFile(dir, stem, extension) == [dir |-> dir, stem |-> stem, extension |-> extension]

\* media in directories /a, /a/b and /c, some with the same file name, one
\* named like a name made unique
SourceFiles ==
    { SourceFile(<<"/", "a", "/">>, "x", "mov"),
      SourceFile(<<"/", "c", "/">>, "x", "mov"),
      SourceFile(<<"/", "a", "/", "b", "/">>, "x", "mov"),
      SourceFile(<<"/", "a", "/">>, "x_pp001", "mov"),
      SourceFile(<<"/", "a", "/">>, "y", "mov") }

\* the file name of stem and extension
name_of(stem, extension) == IF extension = "" THEN stem ELSE stem \o "." \o extension

media_file_path(media) == media.dir \o <<name_of(media.stem, media.extension)>>

\* format!("{:03}", counter)
pad3(counter) ==
    IF counter < 10 THEN "00" \o ToString(counter)
    ELSE IF counter < 100 THEN "0" \o ToString(counter)
    ELSE ToString(counter)

\* format!("{}_pp{:03}.{}", stem, counter, extension)
pp_name(stem, counter, extension) == name_of(stem \o "_pp" \o pad3(counter), extension)

\* base_path: the media folder, or with OriginalDiskStructure the media
\* folder joined with the directory of the file below the common ancestor
\* of all media paths
base_path(folder_structure, media, all_paths) ==
    IF folder_structure = "Flat" THEN <<"Media">>
    ELSE LET common == find_common_ancestor(all_paths)
             comps == components(media_file_path(media))
         IN  IF common = "None" THEN <<"Media">>
             ELSE <<"Media">> \o SubSeq(comps, Len(common) + 1, Len(comps) - 1)

\* the while loop of generate_unique_filenames: the first candidate that is
\* not on the disk
RECURSIVE unique_name(_, _, _, _, _)
unique_name(base, media, final_name, counter, existing) ==
    IF Append(base, final_name) \notin existing THEN final_name
    ELSE unique_name(base, media, pp_name(media.stem, counter, media.extension),
                     counter + 1, existing)

calculate_output_path(cfg, media, all_paths, existing) ==
    LET base == base_path(cfg.folder_structure, media, all_paths)
        file_name_ == name_of(media.stem, media.extension)
    IN  IF cfg.generate_unique_filenames
        THEN Append(base, unique_name(base, media, file_name_, 1, existing))
        ELSE Append(base, file_name_)

\* the files the processing of a media with nranges optimized ranges writes
written_files(cfg, output_path, nranges) ==
    CASE cfg.processing_mode = "NoProcess" -> {}
      [] cfg.processing_mode \in {"Copy", "Transcode"} -> { output_path }
      [] OTHER ->
            IF nranges <= 1 \/ cfg.optimization_mode = "KeepSameNumberOfFiles"
            THEN { output_path }
            ELSE { Append(output_path, i) : i \in 1..nranges }

OutputConfigs ==
    [processing_mode : ProcessingModeConfig, optimization_mode : OptimizationMode,
     folder_structure : {"Flat", "OriginalDiskStructure"},
     generate_unique_filenames : BOOLEAN]

\* the used media of a job: distinct files, each with one or two ranges
UsedSources ==
    { q \in UNION { [1..n -> [media : SourceFiles, nranges : {1, 2}]] : n \in 1..MaxSources } :
        \A i, k \in DOMAIN q : i # k => q[i].media # q[k].media }

OutputsInit ==
    /\ call_args \in [config : OutputConfigs, used : UsedSources]
    /\ call_result = [op |-> "none", val |-> << >>]

\* run(): the output directory was created
run_outputs ==
    /\ call_result.op = "none"
    /\ call_result' = [op |-> "loop", val |-> [i |-> 1, disk |-> {}, path_mapping |-> << >>]]
    /\ UNCHANGED call_args
    /\ UNCHANGED <<engineVars, cacheVars, analyzeVars, loaderVars, rangeVars>>

\* one iteration of the loop over used_media: the output path, the
\* processing, path_mapping.insert
run_output_item ==
    /\ call_result.op = "loop"
    /\ call_result.val.i <= Len(call_args.used)
    /\ LET v == call_result.val
           item == call_args.used[v.i]
           all_paths == [k \in DOMAIN call_args.used |-> media_file_path(call_args.used[k].media)]
           output_path == calculate_output_path(call_args.config, item.media, all_paths, v.disk)
       IN  call_result' = [call_result EXCEPT
              !.val.i = @ + 1,
              !.val.disk = @ \cup written_files(call_args.config, output_path, item.nranges),
              !.val.path_mapping = Append(@, <<media_file_path(item.media), output_path>>)]
    /\ UNCHANGED call_args
    /\ UNCHANGED <<engineVars, cacheVars, analyzeVars, loaderVars, rangeVars>>

\* the loop is over
run_outputs_done ==
    /\ call_result.op = "loop"
    /\ call_result.val.i > Len(call_args.used)
    /\ call_result' = [call_result EXCEPT !.op = "outputs"]
    /\ UNCHANGED call_args
    /\ UNCHANGED <<engineVars, cacheVars, analyzeVars, loaderVars, rangeVars>>

\* ------------------------------------------------------------------------
\* Sequence tracks (project_parser.rs): populate_sequence_tracks and
\* find_clips_in_tracks over the references the event loop stored, for the
\* sequences of a project, and the analysis of the loaded project.
\* ------------------------------------------------------------------------
MaxTrackRefs == 2

\* frames of find_clips_in_tracks the stack of the thread holds: more than
\* any walk over references without a cycle needs
StackLimit == 4

\* a reference: (tag of the referring element, target, is_guid)
TrackRef(tag, target) == <<tag, target, FALSE>>

\* the Sequence objects of objects_by_uid, in the order they are processed
SequenceUids == <<"S1", "S2">>

\* refs_from_uid of a sequence: nothing, or its VideoTracks reference
SequenceRefs == { << >>, <<TrackRef("VideoTracks", "1")>>, <<TrackRef("VideoTracks", "2")>> }

\* refs_from_id of the track objects 1 and 2: references to track objects
\* and to the clip track items T1 and T2
NodeRefs ==
    { TrackRef("Track", "1"), TrackRef("Track", "2"), TrackRef("ClipItems", "2"),
      TrackRef("VideoClipTrackItem", "T1"), TrackRef("VideoClipTrackItem", "T2") }

RefGraphs ==
    { [refs_from_uid |-> [u \in {"S1", "S2"} |-> IF u = "S1" THEN r1 ELSE r2],
       refs_from_id |-> [n \in {"1", "2"} |-> IF n = "1" THEN n1 ELSE n2]] :
        r1 \in SequenceRefs, r2 \in SequenceRefs,
        n1 \in UNION { [1..k -> NodeRefs] : k \in 0..MaxTrackRefs },
        n2 \in UNION { [1..k -> NodeRefs] : k \in 0..1 } }

\* clip_to_media: the clip track items the resolver found a media for
clip_to_media(clip_id) ==
    LET hits == { i \in TrackItems : i.object_id = clip_id /\ i.media_uid # "None" }
    IN  IF hits = {} THEN "None" ELSE (CHOOSE i \in hits : TRUE).media_uid

\* refs_from_uid.get(target) or refs_from_id.get(target); no entry: no refs
refs_of(graph, target_id, is_guid) ==
    IF is_guid
    THEN IF target_id \in DOMAIN graph.refs_from_uid THEN graph.refs_from_uid[target_id] ELSE << >>
    ELSE IF target_id \in DOMAIN graph.refs_from_id THEN graph.refs_from_id[target_id] ELSE << >>

\* ref_tag.contains("Track") || ref_tag == "ClipItems", on the tags of the
\* documents
follows_tag(ref_tag) ==
    ref_tag \in {"Track", "VideoTracks", "AudioTracks", "VideoClipTrackItem",
                 "AudioClipTrackItem", "ClipItems"}

is_clip_track_item(tag) == tag \in {"VideoClipTrackItem", "AudioClipTrackItem"}

\* the TrackClip find_clips_in_tracks pushes
found_clip(clip_id) ==
    [Clip("Standard", clip_to_media(clip_id), "", << >>, << >>, "", 0, 0)
        EXCEPT !.object_id = clip_id]

\* the clips of the sequence after the fallback: when no clip was found
\* through the references, every clip of clip_to_media, in the order the
\* HashMap is iterated
fallback_clips(video_clips) ==
    IF video_clips # << >> THEN { video_clips }
    ELSE into_iter_collect(LoadedClips)

FindFrame(target_id, is_guid) ==
    [target_id |-> target_id, is_guid |-> is_guid, k |-> 1, returned |-> FALSE]

PopulateInit ==
    /\ call_args \in [graph : RefGraphs]
    /\ call_result = [op |-> "none", val |-> << >>]

PopulateFrame == UNCHANGED <<call_args, engineVars, cacheVars, loaderVars, rangeVars>>

\* process_objects: the loop over the Sequence objects begins
process_objects ==
    /\ call_result.op = "none"
    /\ call_result' = [op |-> "sequence",
                       val |-> [s |-> 1, k |-> 1, stack |-> << >>,
                                video_clips |-> << >>, sequences |-> << >>]]
    /\ UNCHANGED analyzeVars
    /\ PopulateFrame

\* populate_sequence_tracks: the next reference of the sequence, followed
\* when it is a VideoTracks or AudioTracks reference
populate_ref ==
    /\ call_result.op = "sequence"
    /\ LET v == call_result.val
           refs == refs_of(call_args.graph, SequenceUids[v.s], TRUE)
       IN  /\ v.k <= Len(refs)
           /\ IF refs[v.k][1] \in {"VideoTracks", "AudioTracks"}
              THEN call_result' = [op |-> "find",
                                   val |-> [v EXCEPT !.k = @ + 1,
                                                     !.stack = <<FindFrame(refs[v.k][2], refs[v.k][3])>>]]
              ELSE call_result' = [call_result EXCEPT !.val.k = @ + 1]
    /\ UNCHANGED analyzeVars
    /\ PopulateFrame

\* find_clips_in_tracks: a reference whose tag is followed, the stack has
\* room for the frame of the call
find_recurse ==
    /\ call_result.op = "find"
    /\ LET v == call_result.val
           top == v.stack[Len(v.stack)]
           refs == refs_of(call_args.graph, top.target_id, top.is_guid)
       IN  /\ top.k <= Len(refs)
           /\ ~top.returned
           /\ follows_tag(refs[top.k][1])
           /\ Len(v.stack) < StackLimit
           /\ call_result' = [call_result EXCEPT
                 !.val.stack = Append([@ EXCEPT ![Len(@)].returned = TRUE],
                                      FindFrame(refs[top.k][2], refs[top.k][3]))]
    /\ UNCHANGED analyzeVars
    /\ PopulateFrame

\* the same call with no room left on the stack: the process is aborted
find_overflow ==
    /\ call_result.op = "find"
    /\ LET v == call_result.val
           top == v.stack[Len(v.stack)]
           refs == refs_of(call_args.graph, top.target_id, top.is_guid)
       IN  /\ top.k <= Len(refs)
           /\ ~top.returned
           /\ follows_tag(refs[top.k][1])
           /\ Len(v.stack) >= StackLimit
    /\ call_result' = [call_result EXCEPT !.op = "stack overflow"]
    /\ UNCHANGED analyzeVars
    /\ PopulateFrame

\* the rest of the loop body: a clip track item reference with a media is
\* pushed; the next reference
find_item ==
    /\ call_result.op = "find"
    /\ LET v == call_result.val
           top == v.stack[Len(v.stack)]
           refs == refs_of(call_args.graph, top.target_id, top.is_guid)
       IN  /\ top.k <= Len(refs)
           /\ top.returned \/ ~follows_tag(refs[top.k][1])
           /\ call_result' = [call_result EXCEPT
                 !.val.stack[Len(v.stack)] = [@ EXCEPT !.k = @ + 1, !.returned = FALSE],
                 !.val.video_clips =
                     IF is_clip_track_item(refs[top.k][1]) /\ clip_to_media(refs[top.k][2]) # "None"
                     THEN Append(@, found_clip(refs[top.k][2])) ELSE @]
    /\ UNCHANGED analyzeVars
    /\ PopulateFrame

\* after the loop: the target itself is pushed when it is a clip track item
\* with a media; the call returns
find_return ==
    /\ call_result.op = "find"
    /\ LET v == call_result.val
           top == v.stack[Len(v.stack)]
           refs == refs_of(call_args.graph, top.target_id, top.is_guid)
       IN  /\ top.k > Len(refs)
           /\ call_result' =
                 [op |-> IF Len(v.stack) = 1 THEN "sequence" ELSE "find",
                  val |-> [v EXCEPT
                     !.stack = SubSeq(@, 1, Len(@) - 1),
                     !.video_clips =
                         IF clip_to_media(top.target_id) # "None"
                         THEN Append(@, found_clip(top.target_id)) ELSE @]]
    /\ UNCHANGED analyzeVars
    /\ PopulateFrame

\* the references of the sequence are done: the fallback, the track of the
\* sequence, and the next sequence
populate_tracks ==
    /\ call_result.op = "sequence"
    /\ LET v == call_result.val
           refs == refs_of(call_args.graph, SequenceUids[v.s], TRUE)
       IN  /\ v.k > Len(refs)
           /\ \E clips \in fallback_clips(v.video_clips) :
                 call_result' =
                    [op |-> IF v.s = Len(SequenceUids) THEN "populated" ELSE "sequence",
                     val |-> [v EXCEPT
                        !.s = @ + 1, !.k = 1, !.video_clips = << >>,
                        !.sequences = Append(@, Sequence(SequenceUids[v.s],
                                                         IF clips = << >> THEN << >> ELSE <<clips>>,
                                                         << >>, << >>))]]
    /\ UNCHANGED analyzeVars
    /\ PopulateFrame

\* the sequence ids a caller chooses for the loaded project
ChosenIds == { <<"S1">>, <<"S2">>, <<"S1", "S2">> }

\* the loaded project is analyzed for the chosen sequences
analyze_loaded ==
    /\ call_result.op = "populated"
    /\ ~analysis.called
    /\ project' = [media_files |-> [g \in {"M1", "M2"} |-> 0],
                   sequences |-> call_result.val.sequences]
    /\ \E ids \in ChosenIds : analysis' \in analyze_sequences(project', NoOptions, ids)
    /\ UNCHANGED call_result
    /\ PopulateFrame

\* ------------------------------------------------------------------------
\* Bin paths (project_parser.rs): build_bin_paths over the bins collected
\* from the object maps. A path is the sequence of its characters' groups:
\* names joined with "/".
\* ------------------------------------------------------------------------
MaxBins == 3

\* a walk up a chain without a cycle takes fewer parts than this; in the
\* model path_parts stops growing here and a walk up a cycle goes on, its
\* iterations counted modulo 2 in spin
MaxPathParts == MaxBins + 1

\* Bin of parse_bin_from_obj: path is String::new()
Bin(object_id, name, parent_id) ==
    [object_id |-> object_id, name |-> name, parent_id |-> parent_id, path |-> << >>]

\* ids of bin objects; ParentID values: none, a bin id, an id that is no bin's
BinIds == {"1", "2", "3"}
ParentIds == {"None", "1", "2", "9"}

\* the bins pushed from objects_by_id and objects_by_uid: objects may share
\* an id; the i-th bin is named after i
BinLists ==
    UNION { { [i \in 1..n |-> Bin(q[i][1], ToString(i), q[i][2])] :
                q \in [1..n -> BinIds \X ParentIds] } : n \in 1..MaxBins }

\* bin_info: the HashMap collected from the bins, a later bin of the same
\* object_id replacing an earlier one; "None" for a missing key
bin_info(bins, id) ==
    LET hits == { i \in DOMAIN bins : bins[i].object_id = id }
    IN  IF hits = {} THEN "None"
        ELSE LET last == CHOOSE i \in hits : \A k \in hits : k <= i
             IN  <<bins[last].name, bins[last].parent_id>>

\* variant: the parent name is pushed at the end of path_parts
insert_front_Push(path_parts, parent_name) ==
    IF Len(path_parts) < MaxPathParts THEN Append(path_parts, parent_name)
    ELSE path_parts

\* path_parts.insert(0, parent_name)
insert_front(path_parts, parent_name) ==
    IF Len(path_parts) < MaxPathParts THEN <<parent_name>> \o path_parts
    ELSE path_parts

\* path_parts.join("/")
RECURSIVE join(_)
join(path_parts) ==
    IF Len(path_parts) <= 1 THEN path_parts
    ELSE <<Head(path_parts), "/">> \o join(Tail(path_parts))

BinsInit ==
    /\ call_args \in [bins : BinLists]
    /\ call_result = [op |-> "none", val |-> << >>]

\* build_bin_paths(&mut project.bins): bin_info is collected
build_bin_paths ==
    /\ call_result.op = "none"
    /\ call_result' = [op |-> "for",
                       val |-> [bins |-> call_args.bins, i |-> 1,
                                path_parts |-> << >>, current_parent |-> "None",
                                spin |-> 0]]
    /\ UNCHANGED call_args
    /\ UNCHANGED <<engineVars, cacheVars, analyzeVars, loaderVars, rangeVars>>

\* for bin in bins.iter_mut(): the next bin, its name and its parent
bin_for ==
    /\ call_result.op = "for"
    /\ call_result.val.i <= Len(call_result.val.bins)
    /\ LET bin == call_result.val.bins[call_result.val.i]
       IN  call_result' = [op |-> "while",
                           val |-> [call_result.val EXCEPT
                                      !.path_parts = <<bin.name>>,
                                      !.current_parent = bin.parent_id]]
    /\ UNCHANGED call_args
    /\ UNCHANGED <<engineVars, cacheVars, analyzeVars, loaderVars, rangeVars>>

\* while let Some(parent_id): the parent is in bin_info
bin_while ==
    /\ call_result.op = "while"
    /\ call_result.val.current_parent # "None"
    /\ LET info == bin_info(call_args.bins, call_result.val.current_parent)
       IN  /\ info # "None"
           /\ call_result' = [call_result EXCEPT
                                !.val.path_parts = insert_front(@, info[1]),
                                !.val.current_parent = info[2],
                                !.val.spin = IF Len(call_result.val.path_parts) < MaxPathParts
                                             THEN @ ELSE 1 - @]
    /\ UNCHANGED call_args
    /\ UNCHANGED <<engineVars, cacheVars, analyzeVars, loaderVars, rangeVars>>

\* the loop ends (no parent, or a parent that is no bin): bin.path is set
bin_path ==
    /\ call_result.op = "while"
    /\ \/ call_result.val.current_parent = "None"
       \/ bin_info(call_args.bins, call_result.val.current_parent) = "None"
    /\ call_result' = [op |-> "for",
                       val |-> [call_result.val EXCEPT
                                  !.bins[call_result.val.i].path = join(call_result.val.path_parts),
                                  !.i = @ + 1]]
    /\ UNCHANGED call_args
    /\ UNCHANGED <<engineVars, cacheVars, analyzeVars, loaderVars, rangeVars>>

\* every bin has its path: build_bin_paths returns
bin_return ==
    /\ call_result.op = "for"
    /\ call_result.val.i > Len(call_result.val.bins)
    /\ call_result' = [call_result EXCEPT !.op = "build_bin_paths"]
    /\ UNCHANGED call_args
    /\ UNCHANGED <<engineVars, cacheVars, analyzeVars, loaderVars, rangeVars>>

\* ------------------------------------------------------------------------
\* Project loader (project_parser.rs): the event loop of parse_xml
\* ------------------------------------------------------------------------
MaxEvents == 4

\* the ObjectID and ObjectUID values of the documents; "None" is Option::None
NumIds == {"1", "2", "3"}
Uids == {"U1", "U2", "U9"}

\* children: the (key, text) pairs pushed to the object, in order; the Vec of
\* a key is the texts of the pairs with that key
XmlObject(tag, id, uid) ==
    [tag |-> tag, object_id |-> id, object_uid |-> uid, children |-> << >>]
NoObject == XmlObject("", "None", "None")

\* no call of find_media_for_clip yet. status: idle, running or done;
\* stack: the calls in progress, outermost first, each with the identifier
\* it resolves, the index of the reference its loop is at, and whether the
\* call it is waiting for has already been repeated; deepest: the greatest
\* depth argument of a call that read its references; via: the index of the
\* reference of the outermost call through which the media was found
NoResolved == [status |-> "idle", start_id |-> "None", val |-> "None", deepest |-> 0,
               via |-> 0, stack |-> << >>]

LoaderInit ==
    /\ current_element = << >>
    /\ object_context_stack = << >>
    /\ objects_by_id = [i \in NumIds |-> << >>]
    /\ objects_by_uid = [u \in Uids |-> NoObject]
    /\ refs_from_id = [i \in NumIds |-> << >>]
    /\ refs_from_uid = [u \in Uids |-> << >>]
    /\ media_file_paths = {}
    /\ document = << >>
    /\ declared = [i \in NumIds |-> << >>]
    /\ nevents = 0
    /\ current_text = ""
    /\ event = "none"
    /\ resolved = NoResolved

\* stack.iter().rev().find(|(id, uid)| id.is_some() || uid.is_some())
find_identified(stack) ==
    LET hits == { i \in 1..Len(stack) : stack[i][1] # "None" \/ stack[i][2] # "None" }
    IN  IF hits = {} THEN <<"None", "None">>
        ELSE stack[CHOOSE i \in hits : \A k \in hits : k <= i]

\* the same with the element itself among the candidates
parent_context_Self(stack, is_empty) ==
    find_identified(stack)

\* parent_context, the stack being the one after the push of a Start element
parent_context(stack, is_empty) ==
    IF ~is_empty /\ Len(stack) >= 2 THEN find_identified(SubSeq(stack, 1, Len(stack) - 1))
    ELSE IF is_empty /\ Len(stack) > 0 THEN find_identified(stack)
    ELSE <<"None", "None">>

\* a reference is pushed under the source's id, else under its uid
store_ref(maps, source, ref) ==
    IF source[1] # "None" THEN [maps EXCEPT !.id[source[1]] = Append(@, ref)]
    ELSE IF source[2] # "None" THEN [maps EXCEPT !.uid[source[2]] = Append(@, ref)]
    ELSE maps

\* variant: an Empty element pushes a context too
process_element_attrs_PushEmpty(e, is_empty) ==
    LET stack == Append(object_context_stack, <<e.id, e.uid>>)
        obj == XmlObject(e.tag, e.id, e.uid)
        source == parent_context(stack, is_empty)
        m0 == [id |-> refs_from_id, uid |-> refs_from_uid]
        m1 == IF e.ref # "None" THEN store_ref(m0, source, <<e.tag, e.ref, FALSE>>) ELSE m0
        m2 == IF e.uref # "None" THEN store_ref(m1, source, <<e.tag, e.uref, TRUE>>) ELSE m1
    IN  /\ object_context_stack' = stack
        /\ objects_by_id' = IF e.id # "None"
                            THEN [objects_by_id EXCEPT ![e.id] = Append(@, obj)]
                            ELSE objects_by_id
        /\ objects_by_uid' = IF e.uid # "None"
                             THEN [objects_by_uid EXCEPT ![e.uid] = obj]
                             ELSE objects_by_uid
        /\ refs_from_id' = m2.id
        /\ refs_from_uid' = m2.uid

\* e = [tag, id, uid, ref, uref]: the element's name and its ObjectID,
\* ObjectUID, ObjectRef and ObjectURef attributes
process_element_attrs(e, is_empty) ==
    LET stack == IF is_empty THEN object_context_stack
                 ELSE Append(object_context_stack, <<e.id, e.uid>>)
        obj == XmlObject(e.tag, e.id, e.uid)
        source == parent_context(stack, is_empty)
        m0 == [id |-> refs_from_id, uid |-> refs_from_uid]
        m1 == IF e.ref # "None" THEN store_ref(m0, source, <<e.tag, e.ref, FALSE>>) ELSE m0
        m2 == IF e.uref # "None" THEN store_ref(m1, source, <<e.tag, e.uref, TRUE>>) ELSE m1
    IN  /\ object_context_stack' = stack
        /\ objects_by_id' = IF e.id # "None"
                            THEN [objects_by_id EXCEPT ![e.id] = Append(@, obj)]
                            ELSE objects_by_id
        /\ objects_by_uid' = IF e.uid # "None"
                             THEN [objects_by_uid EXCEPT ![e.uid] = obj]
                             ELSE objects_by_uid
        /\ refs_from_id' = m2.id
        /\ refs_from_uid' = m2.uid

\* the elements of the documents read event by event
Element(tag, id, uid, ref, uref) ==
    [tag |-> tag, id |-> id, uid |-> uid, ref |-> ref, uref |-> uref]

StartElements ==
    { Element("SubClip", ident[1], ident[2], r[1], r[2]) :
        ident \in { <<"None", "None">>, <<"1", "None">>, <<"None", "U1">>, <<"1", "U1">> },
        r \in { <<"None", "None">>, <<"2", "None">>, <<"None", "U1">> } }

EmptyElements ==
    { Element("Source", id, "None", r[1], r[2]) :
        id \in { "None", "2" },
        r \in { <<"None", "None">>, <<"2", "None">>, <<"None", "U1">>, <<"2", "U1">> } }

\* Ok(Event::Start(e))
StartEvent(e) ==
    /\ nevents < MaxEvents
    /\ current_element' = Append(current_element, e.tag)
    /\ process_element_attrs(e, FALSE)
    /\ document' = Append(document,
                          [tag |-> e.tag, id |-> e.id, uid |-> e.uid,
                           index |-> IF e.id # "None" THEN Len(objects_by_id[e.id]) + 1 ELSE 0])
    /\ nevents' = nevents + 1
    /\ event' = "Start"
    /\ UNCHANGED <<media_file_paths, declared, current_text, resolved>>
    /\ UNCHANGED <<engineVars, cacheVars, analyzeVars, rangeVars, callVars>>

\* Ok(Event::Empty(e))
EmptyEvent(e) ==
    /\ nevents < MaxEvents
    /\ process_element_attrs(e, TRUE)
    /\ nevents' = nevents + 1
    /\ event' = "Empty"
    /\ UNCHANGED <<current_element, media_file_paths, document, declared, current_text,
                   resolved>>
    /\ UNCHANGED <<engineVars, cacheVars, analyzeVars, rangeVars, callVars>>

\* Ok(Event::End(_)): the reader reports an End only for the innermost open
\* element
EndEvent ==
    /\ nevents < MaxEvents
    /\ Len(current_element) > 0
    /\ current_element' = SubSeq(current_element, 1, Len(current_element) - 1)
    /\ object_context_stack' = SubSeq(object_context_stack, 1, Len(object_context_stack) - 1)
    /\ document' = SubSeq(document, 1, Len(document) - 1)
    /\ current_text' = ""
    /\ nevents' = nevents + 1
    /\ event' = "End"
    /\ UNCHANGED <<objects_by_id, objects_by_uid, refs_from_id, refs_from_uid,
                   media_file_paths, declared, resolved>>
    /\ UNCHANGED <<engineVars, cacheVars, analyzeVars, rangeVars, callVars>>

\* current_object_id(): the ObjectID of the nearest context that has one
current_object_id(stack) ==
    LET hits == { i \in 1..Len(stack) : stack[i][1] # "None" }
    IN  IF hits = {} THEN "None"
        ELSE stack[CHOOSE i \in hits : \A k \in hits : k <= i][1]

\* current_object_uid(): the ObjectUID of the nearest context that has one
current_object_uid(stack) ==
    LET hits == { i \in 1..Len(stack) : stack[i][2] # "None" }
    IN  IF hits = {} THEN "None"
        ELSE stack[CHOOSE i \in hits : \A k \in hits : k <= i][2]

\* the texts of the documents: empty, a name, and an absolute path with a
\* media extension (looks_like_path && has_media_extension)
Texts == {"", "t", "/a.mov"}
PathTexts == {"/a.mov"}

\* obj.children.entry(child_key).or_default().push(text)
push_child(obj, child_key, text) ==
    [obj EXCEPT !.children = Append(@, <<child_key, text>>)]

\* the text is pushed to the last object declared with the id
text_to_id(objs, child_key, text) ==
    IF objs = << >> \/ text = "" THEN objs
    ELSE [objs EXCEPT ![Len(objs)] = push_child(@, child_key, text)]

\* Ok(Event::Text(e))
TextEvent(text) ==
    LET current_tag == IF current_element = << >> THEN ""
                       ELSE current_element[Len(current_element)]
        is_file_path_element ==
            current_tag \in {"ActualMediaFilePath", "FilePath", "MediaFilePath"}
        obj_uid == current_object_uid(object_context_stack)
        obj_id == current_object_id(object_context_stack)
        parent_uid == IF obj_uid # "None" THEN obj_uid
                      ELSE IF obj_id # "None" THEN obj_id ELSE "unknown"
    IN  /\ nevents < MaxEvents
        /\ current_text' = text
        /\ media_file_paths' = IF is_file_path_element /\ text \in PathTexts
                               THEN media_file_paths \cup {parent_uid}
                               ELSE media_file_paths
        /\ objects_by_uid' =
               IF obj_uid # "None" /\ objects_by_uid[obj_uid] # NoObject /\ text # ""
               THEN [objects_by_uid EXCEPT ![obj_uid] = push_child(@, current_tag, text)]
               ELSE objects_by_uid
        /\ objects_by_id' =
               IF obj_id # "None"
               THEN [objects_by_id EXCEPT ![obj_id] = text_to_id(@, current_tag, text)]
               ELSE objects_by_id
        /\ nevents' = nevents + 1
        /\ event' = "Text"
        /\ UNCHANGED <<current_element, object_context_stack, refs_from_id, refs_from_uid,
                       document, declared, resolved>>
        /\ UNCHANGED <<engineVars, cacheVars, analyzeVars, rangeVars, callVars>>

\* The elements of the documents with text: a Media object with a GUID, a
\* Clip and a SubClip declared with the same numeric id, an object with both
\* identifiers, and elements without identity that hold the text.
TextStartElements ==
    { Element("Media", "None", "U1", "None", "None"),
      Element("Clip", "1", "None", "None", "None"),
      Element("SubClip", "1", "None", "None", "None"),
      Element("Sequence", "2", "U2", "None", "None"),
      Element("Name", "None", "None", "None", "None"),
      Element("FilePath", "None", "None", "None", "None") }

TextEmptyElements ==
    { Element("Source", "None", "None", "2", "None"),
      Element("Node", "3", "None", "None", "None") }

\* ------------------------------------------------------------------------
\* Reference resolver (project_parser.rs): find_media_for_clip on the
\* ParserState of a loaded document
\* ------------------------------------------------------------------------
MaxRefs == 2

DepthLimit == 20

KnownTags == {"SubClip", "VideoClip", "AudioClip", "MasterClip", "VideoMediaSource",
              "AudioMediaSource", "Clip", "Source"}

ParserState ==
    [objects_by_id |-> objects_by_id, objects_by_uid |-> objects_by_uid,
     refs_from_id |-> refs_from_id, refs_from_uid |-> refs_from_uid,
     media_file_paths |-> media_file_paths]

\* refs_from_id.get(start_id) chained with refs_from_uid.get(start_id)
all_refs(st, start_id) ==
    (IF start_id \in NumIds THEN st.refs_from_id[start_id] ELSE << >>)
    \o (IF start_id \in Uids THEN st.refs_from_uid[start_id] ELSE << >>)

\* the object of the list with the expected tag, else the first with a
\* well-known tag, else the first
select_target(target_objs, expected_type) ==
    LET first(P(_)) ==
            LET hits == { i \in 1..Len(target_objs) : P(target_objs[i]) }
            IN  IF hits = {} THEN 0 ELSE CHOOSE i \in hits : \A k \in hits : i <= k
        IsExpected(obj) == obj.tag = expected_type
        IsKnown(obj) == obj.tag \in KnownTags
    IN  IF first(IsExpected) # 0 THEN target_objs[first(IsExpected)]
        ELSE IF first(IsKnown) # 0 THEN target_objs[first(IsKnown)]
        ELSE target_objs[1]

\* a GUID target the resolver returns: any existing GUID object
is_media_AnyObject(st, target) ==
    target \in Uids /\ st.objects_by_uid[target] # NoObject

\* a GUID target the resolver returns: a key of media_file_paths or an
\* object of tag Media
is_media(st, target) ==
    \/ target \in st.media_file_paths
    \/ target \in Uids /\ st.objects_by_uid[target].tag = "Media"

\* if depth > 20 { return None; }
too_deep_Later(depth) == depth > DepthLimit + 2

too_deep(depth) == depth > DepthLimit

Frame(id, i, repeated) == [id |-> id, i |-> i, repeated |-> repeated]

\* the call in progress, its depth argument and the reference its loop is at
TopFrame == resolved.stack[Len(resolved.stack)]
TopDepth == Len(resolved.stack) - 1
TopRefs == all_refs(ParserState, TopFrame.id)
TopRef == TopRefs[TopFrame.i]

\* the reference names something the resolver recurses on: a GUID object
\* that is no media, or a numeric id with objects
Recurses(ref) ==
    IF ref[3]
    THEN ~is_media(ParserState, ref[2])
         /\ ref[2] \in Uids /\ objects_by_uid[ref[2]] # NoObject
    ELSE ref[2] \in NumIds /\ objects_by_id[ref[2]] # << >>

\* the numeric branch calls the resolver a second time when the object it
\* selected is a media source and the first call found nothing
CallsTwice(ref) ==
    /\ ~ref[3]
    /\ select_target(objects_by_id[ref[2]], ref[1]).tag
          \in {"VideoMediaSource", "AudioMediaSource"}

LoaderFrame ==
    UNCHANGED <<current_element, object_context_stack, objects_by_id, objects_by_uid,
                refs_from_id, refs_from_uid, media_file_paths, document, declared,
                nevents, current_text, event>>

\* the call in progress has returned None to its caller: the caller repeats
\* the call or moves to its next reference
ReturnNone(stack, deep) ==
    IF Len(stack) = 1
    THEN resolved' = [resolved EXCEPT !.status = "done", !.val = "None",
                                     !.deepest = Max(@, deep), !.stack = << >>]
    ELSE LET caller == stack[Len(stack) - 1]
             rest == SubSeq(stack, 1, Len(stack) - 2)
             ref == all_refs(ParserState, caller.id)[caller.i]
         IN  IF CallsTwice(ref) /\ ~caller.repeated
             THEN resolved' = [resolved EXCEPT
                      !.deepest = Max(@, deep),
                      !.stack = rest \o <<Frame(caller.id, caller.i, TRUE),
                                          Frame(ref[2], 1, FALSE)>>]
             ELSE resolved' = [resolved EXCEPT
                      !.deepest = Max(@, deep),
                      !.stack = Append(rest, Frame(caller.id, caller.i + 1, FALSE))]

\* process_objects: find_media_for_clip(clip_id, state, 0) for a clip track
\* item
ResolveClip ==
    /\ resolved.status = "idle"
    /\ \E clip_id \in NumIds :
          /\ \E k \in 1..Len(objects_by_id[clip_id]) :
                objects_by_id[clip_id][k].tag \in {"VideoClipTrackItem", "AudioClipTrackItem"}
          /\ resolved' = [NoResolved EXCEPT !.status = "running", !.start_id = clip_id,
                                            !.stack = <<Frame(clip_id, 1, FALSE)>>]
    /\ LoaderFrame
    /\ UNCHANGED <<engineVars, cacheVars, analyzeVars, rangeVars, callVars>>

\* a call made with a depth over the limit returns None at once
find_media_too_deep ==
    /\ resolved.status = "running"
    /\ too_deep(TopDepth)
    /\ ReturnNone(resolved.stack, 0)
    /\ LoaderFrame
    /\ UNCHANGED <<engineVars, cacheVars, analyzeVars, rangeVars, callVars>>

\* the loop is over: the call returns None
find_media_none ==
    /\ resolved.status = "running"
    /\ ~too_deep(TopDepth)
    /\ TopFrame.i > Len(TopRefs)
    /\ ReturnNone(resolved.stack, TopDepth)
    /\ LoaderFrame
    /\ UNCHANGED <<engineVars, cacheVars, analyzeVars, rangeVars, callVars>>

\* a GUID reference to a key of media_file_paths or to a Media object: every
\* call in progress returns it
find_media_found ==
    /\ resolved.status = "running"
    /\ ~too_deep(TopDepth)
    /\ TopFrame.i <= Len(TopRefs)
    /\ TopRef[3] /\ is_media(ParserState, TopRef[2])
    /\ resolved' = [resolved EXCEPT !.status = "done", !.val = TopRef[2],
                                    !.via = resolved.stack[1].i,
                                    !.deepest = Max(@, TopDepth), !.stack = << >>]
    /\ LoaderFrame
    /\ UNCHANGED <<engineVars, cacheVars, analyzeVars, rangeVars, callVars>>

\* a reference to follow: the recursive call with depth + 1
find_media_recurse ==
    /\ resolved.status = "running"
    /\ ~too_deep(TopDepth)
    /\ TopFrame.i <= Len(TopRefs)
    /\ Recurses(TopRef)
    /\ resolved' = [resolved EXCEPT !.deepest = Max(@, TopDepth),
                                    !.stack = Append(@, Frame(TopRef[2], 1, FALSE))]
    /\ LoaderFrame
    /\ UNCHANGED <<engineVars, cacheVars, analyzeVars, rangeVars, callVars>>

\* a reference whose target is no media and no object: the next reference
find_media_dangling ==
    /\ resolved.status = "running"
    /\ ~too_deep(TopDepth)
    /\ TopFrame.i <= Len(TopRefs)
    /\ ~(TopRef[3] /\ is_media(ParserState, TopRef[2]))
    /\ ~Recurses(TopRef)
    /\ resolved' = [resolved EXCEPT !.deepest = Max(@, TopDepth),
                                    !.stack[Len(resolved.stack)].i = @ + 1]
    /\ LoaderFrame
    /\ UNCHANGED <<engineVars, cacheVars, analyzeVars, rangeVars, callVars>>

\* Documents: a clip track item with id 1, objects with id 2 (a SubClip, a
\* Bin, or both sharing the id), GUID objects U1 and U2; id 3 and GUID U9
\* are never declared.
Ref(tag, target, is_guid) == <<tag, target, is_guid>>
Declared(tag, refs) == [tag |-> tag, refs |-> refs]

InjectiveLists(S, n) ==
    UNION { { q \in [1..k -> S] : \A i, j \in 1..k : q[i] = q[j] => i = j } : k \in 0..n }

ItemRefs ==
    { Ref("SubClip", "2", FALSE),
      Ref("Media", "U1", TRUE), Ref("Media", "U2", TRUE), Ref("Media", "U9", TRUE) }

SubClipRefLists ==
    { << >>, <<Ref("SubClip", "1", FALSE)>>, <<Ref("SubClip", "2", FALSE)>>,
      <<Ref("Source", "3", FALSE)>>, <<Ref("Media", "U1", TRUE)>>,
      <<Ref("Media", "U2", TRUE)>> }

BinRefLists == { << >>, <<Ref("Media", "U1", TRUE)>>, <<Ref("Media", "U2", TRUE)>> }

DeclaredLists2 ==
    { << >> }
    \cup { <<Declared("SubClip", ra)>> : ra \in SubClipRefLists }
    \cup { <<Declared("Bin", rb)>> : rb \in BinRefLists }
    \cup { <<Declared("VideoMediaSource", rv)>> : rv \in BinRefLists }
    \cup { <<Declared("SubClip", ra), Declared("Bin", rb)>> :
              ra \in SubClipRefLists, rb \in BinRefLists }
    \cup { <<Declared("Bin", rb), Declared("SubClip", ra)>> :
              ra \in SubClipRefLists, rb \in BinRefLists }

\* a GUID object: its tag ("": not declared), whether a media file path was
\* read inside it, and its references
GuidObjects1 ==
    { [tag |-> "", path |-> FALSE, refs |-> << >>],
      [tag |-> "Media", path |-> TRUE, refs |-> << >>],
      [tag |-> "Media", path |-> FALSE, refs |-> << >>],
      [tag |-> "MasterClip", path |-> FALSE, refs |-> << >>],
      [tag |-> "MasterClip", path |-> FALSE, refs |-> <<Ref("Source", "3", FALSE)>>],
      [tag |-> "MasterClip", path |-> FALSE, refs |-> <<Ref("Media", "U2", TRUE)>>] }

GuidObjects2 ==
    { [tag |-> "", path |-> FALSE, refs |-> << >>],
      [tag |-> "Media", path |-> TRUE, refs |-> << >>],
      [tag |-> "Clip", path |-> FALSE, refs |-> << >>] }

RECURSIVE ConcatRefs(_, _)
ConcatRefs(decls, i) ==
    IF i > Len(decls) THEN << >> ELSE decls[i].refs \o ConcatRefs(decls, i + 1)

\* the ParserState after the whole document was read
LoadedInit ==
    \E l1 \in InjectiveLists(ItemRefs, MaxRefs), d2 \in DeclaredLists2,
       u1 \in GuidObjects1, u2 \in GuidObjects2 :
        LET decl == [i \in NumIds |->
                        CASE i = "1" -> <<Declared("VideoClipTrackItem", l1)>>
                          [] i = "2" -> d2
                          [] OTHER -> << >>]
            guid == [u \in Uids |->
                        CASE u = "U1" -> u1
                          [] u = "U2" -> u2
                          [] OTHER -> [tag |-> "", path |-> FALSE, refs |-> << >>]]
        IN  /\ declared = decl
            /\ objects_by_id = [i \in NumIds |->
                                  [k \in 1..Len(decl[i]) |-> XmlObject(decl[i][k].tag, i, "None")]]
            /\ refs_from_id = [i \in NumIds |-> ConcatRefs(decl[i], 1)]
            /\ objects_by_uid = [u \in Uids |->
                                   IF guid[u].tag = "" THEN NoObject
                                   ELSE XmlObject(guid[u].tag, "None", u)]
            /\ refs_from_uid = [u \in Uids |-> guid[u].refs]
            /\ media_file_paths = { u \in Uids : guid[u].path }
            /\ current_element = << >>
            /\ object_context_stack = << >>
            /\ document = << >>
            /\ nevents = 0
            /\ current_text = ""
            /\ event = "none"
            /\ resolved = NoResolved

\* ------------------------------------------------------------------------
\* Specifications
\* ------------------------------------------------------------------------
vars == <<running_jobs, config, progress, cancel_flag, pc, idx, inv, child,
          path_mapping, disk, result, response,
          project_cache, parses, tcmd, tpath, tpc, tmark, tproject,
          project, analysis,
          current_element, object_context_stack, objects_by_id, objects_by_uid,
          refs_from_id, refs_from_uid, media_file_paths, document, declared, nevents,
          current_text, event, resolved,
          range_args, range_result, call_args, call_result>>

CallIdle ==
    /\ call_args = << >>
    /\ call_result = [op |-> "none", val |-> << >>]

AnalyzeIdle ==
    /\ project = [media_files |-> << >>, sequences |-> << >>]
    /\ analysis = NoAnalysis

\* One consolidation job with every configuration: its worker thread, the
\* transcoder process and the cancel command.
Init == EngineInit /\ CacheInit /\ AnalyzeIdle /\ LoaderInit /\ RangesIdle /\ CallIdle

Next ==
    \/ \E c \in Configs(MaxMedia) : start_consolidation(1, c)
    \/ cancel_consolidation(1)
    \/ \E j \in JobIds :
          \/ run_analyzing(j)
          \/ run_check1(j)
          \/ run_totals(j)
          \/ run_check2(j)
          \/ run_processing(j)
          \/ create_output_structure(j)
          \/ run_check3(j)
          \/ run_loop(j)
          \/ run_item(j)
          \/ run_prepare(j)
          \/ run_dispatch(j)
          \/ ffmpeg_spawn(j)
          \/ child_exit(j)
          \/ ffmpeg_poll_cancel(j)
          \/ ffmpeg_wait(j)
          \/ run_extras(j)
          \/ run_commit(j)
          \/ run_writing(j)
          \/ write_project_file(j)
          \/ write_manifest(j)
          \/ run_complete(j)

Spec == Init /\ [][Next]_vars

\* The job registry: several jobs, each with its worker thread, and the
\* three job commands with any job id.
JobsConfigs ==
    { c \in Configs(1) :
        /\ c.processing_mode = "Transcode"
        /\ c.skip_offline_media /\ c.copy_extras
        /\ Len(c.media) = 1 /\ c.media[1].exists }

NextJobs ==
    \/ \E j \in JobIds, c \in JobsConfigs : start_consolidation(j, c)
    \/ \E j \in JobIdInputs : cancel_consolidation(j)
    \/ \E j \in JobIdInputs : get_consolidation_progress(j)
    \/ \E j \in JobIds :
          \/ run_analyzing(j)
          \/ run_check1(j)
          \/ run_totals(j)
          \/ run_check2(j)
          \/ run_processing(j)
          \/ create_output_structure(j)
          \/ run_check3(j)
          \/ run_loop(j)
          \/ run_item(j)
          \/ run_prepare(j)
          \/ run_dispatch(j)
          \/ ffmpeg_spawn(j)
          \/ child_exit(j)
          \/ ffmpeg_poll_cancel(j)
          \/ ffmpeg_wait(j)
          \/ run_extras(j)
          \/ run_commit(j)
          \/ run_writing(j)
          \/ write_project_file(j)
          \/ write_manifest(j)
          \/ run_complete(j)

SpecJobs == Init /\ [][NextJobs]_vars

\* The project cache under concurrent commands.
NextCache ==
    \/ \E t \in Threads, cmd \in CacheCommands, p \in Paths : call_command(t, cmd, p)
    \/ \E t \in Threads :
          \/ open_project_exists(t)
          \/ invalidate_project(t)
          \/ get_project_read(t)
          \/ get_project_parse(t)
          \/ get_project_insert(t)
          \/ command_return(t)

SpecCache == Init /\ [][NextCache]_vars

\* The analyzer applied to every project of Projects.
InitAnalyze == EngineInit /\ CacheInit /\ AnalyzeInit /\ LoaderInit /\ RangesIdle /\ CallIdle

NextAnalyze == AnalyzeSequences \/ AnalyzeAll

SpecAnalyze == InitAnalyze /\ [][NextAnalyze]_vars

\* The loader reading the events of a document.
NextParse ==
    \/ \E e \in StartElements : StartEvent(e)
    \/ \E e \in EmptyElements : EmptyEvent(e)
    \/ EndEvent

SpecParse == Init /\ [][NextParse]_vars

\* The loader reading the events of a document with text; a GUID is declared
\* by one element of the document only.
NextText ==
    \/ \E e \in TextStartElements :
          /\ e.uid # "None" => objects_by_uid[e.uid] = NoObject
          /\ StartEvent(e)
    \/ \E e \in TextEmptyElements : EmptyEvent(e)
    \/ EndEvent
    \/ \E text \in Texts : TextEvent(text)

SpecText == Init /\ [][NextText]_vars

\* The resolver applied to every document of LoadedInit.
InitResolve == EngineInit /\ CacheInit /\ AnalyzeIdle /\ LoadedInit /\ RangesIdle /\ CallIdle

\* The TimeRange functions applied to every list of RangesInit.
InitRanges == EngineInit /\ CacheInit /\ AnalyzeIdle /\ LoaderInit /\ RangesInit /\ CallIdle

NextRanges == Optimize \/ MergeWith

SpecRanges == InitRanges /\ [][NextRanges]_vars

\* The path replacement of the project rewrite on every bounded project XML.
InitRewrite == EngineInit /\ CacheInit /\ AnalyzeIdle /\ LoaderInit /\ RangesIdle /\ RewriteInit

NextRewrite == Rewrite

SpecRewrite == InitRewrite /\ [][NextRewrite]_vars

\* The Trim arm of run() for one media used by every bounded list of clips.
InitTrim == EngineInit /\ CacheInit /\ AnalyzeIdle /\ LoaderInit /\ RangesIdle /\ TrimInit

NextTrim == TrimItem

SpecTrim == InitTrim /\ [][NextTrim]_vars

\* find_common_ancestor on every bounded list of paths.
InitAncestor == EngineInit /\ CacheInit /\ AnalyzeIdle /\ LoaderInit /\ RangesIdle /\ AncestorInit

NextAncestor == FindCommonAncestor

SpecAncestor == InitAncestor /\ [][NextAncestor]_vars

\* The tracks of the sequences of every bounded reference graph, and the
\* analysis of the loaded project.
InitPopulate == EngineInit /\ CacheInit /\ AnalyzeIdle /\ LoaderInit /\ RangesIdle /\ PopulateInit

NextPopulate ==
    \/ process_objects
    \/ populate_ref
    \/ find_recurse
    \/ find_overflow
    \/ find_item
    \/ find_return
    \/ populate_tracks
    \/ analyze_loaded

SpecPopulate == InitPopulate /\ [][NextPopulate]_vars

SpecPopulateFair == SpecPopulate /\ WF_vars(NextPopulate)

\* The output paths of the used media of one job.
InitOutputs == EngineInit /\ CacheInit /\ AnalyzeIdle /\ LoaderInit /\ RangesIdle /\ OutputsInit

NextOutputs == run_outputs \/ run_output_item \/ run_outputs_done

SpecOutputs == InitOutputs /\ [][NextOutputs]_vars

\* build_bin_paths on every bounded list of bins.
InitBins == EngineInit /\ CacheInit /\ AnalyzeIdle /\ LoaderInit /\ RangesIdle /\ BinsInit

NextBins ==
    \/ build_bin_paths
    \/ bin_for
    \/ bin_while
    \/ bin_path
    \/ bin_return

SpecBins == InitBins /\ [][NextBins]_vars

\* the loops run on: a step that can be taken is taken
SpecBinsFair == SpecBins /\ WF_vars(NextBins)

NextResolve ==
    \/ ResolveClip
    \/ find_media_too_deep
    \/ find_media_none
    \/ find_media_found
    \/ find_media_recurse
    \/ find_media_dangling

SpecResolve == InitResolve /\ [][NextResolve]_vars

\* a call in progress goes on until it returns
SpecResolveFair == SpecResolve /\ WF_vars(NextResolve)

\* ------------------------------------------------------------------------
\* Properties
\* ------------------------------------------------------------------------
StatusChain ==
    { <<"Pending", "Analyzing">>, <<"Analyzing", "Processing">>,
      <<"Processing", "WritingProject">>, <<"WritingProject", "Completed">> }

AllowedMoves ==
    StatusChain \cup ((ConsolidationStatus \ TerminalStatus) \X {"Cancelled", "Failed"})

HasFatalError(j) ==
    \E i \in 1..Len(progress[j].errors) : progress[j].errors[i].is_fatal

HasNonFatalError(j) ==
    \E i \in 1..Len(progress[j].errors) : ~progress[j].errors[i].is_fatal

\* C1: the status of a job only moves one step along Pending -> Analyzing ->
\* Processing -> WritingProject -> Completed, or from a non-terminal status
\* to Cancelled or Failed; a terminal status never changes, also when the
\* job is cancelled afterwards.
C1_StatusMoves ==
    [][\A j \in JobIds :
          \/ progress'[j].status = progress[j].status
          \/ <<progress[j].status, progress'[j].status>> \in AllowedMoves]_vars

\* a completed job whose cancel flag is set and whose last command was cancel
C1_Witness ==
    \E j \in JobIds :
        /\ progress[j].status = "Completed" /\ pc[j] = "done"
        /\ cancel_flag[j] /\ response.cmd = "cancel"

\* C2: when the transcoder process of a job was killed because the cancel
\* flag was set, the job's status is Cancelled and a non-fatal error is
\* recorded in progress.errors.
C2_KilledIsCancelled ==
    \A j \in JobIds :
        child[j] = "killed" =>
            /\ progress[j].status = "Cancelled"
            /\ HasNonFatalError(j)

\* C3: a run that returned because it saw the cancel flag during the
\* per-media loop (at an item's check, in the transcoder poll loop or at the
\* check after the loop) ends with status Cancelled and with neither the
\* project file nor the manifest written.
C3_CancelInLoop ==
    \A j \in JobIds :
        (result[j].val \in {"Err_cancelled", "Err_killed"} /\ result[j].at \in {"loop", "poll"})
            => /\ progress[j].status = "Cancelled"
               /\ ~disk[j].project
               /\ ~disk[j].manifest

\* C4: when the processing of one media item failed, the failure is recorded
\* as a non-fatal error for that item, the loop went on over the remaining
\* items and, unless the job was cancelled or the rewrite itself failed, the
\* project was rewritten.
C4_ItemFailureNonFatal ==
    \A j \in JobIds :
        (pc[j] = "done" /\ result[j].val = "Err_item")
            => /\ \E i \in 1..Len(progress[j].errors) :
                     progress[j].errors[i] = [file |-> idx[j], is_fatal |-> FALSE]
               /\ idx[j] > Len(config[j].media)
               /\ disk[j].project

\* C5: when run() has returned, the status is Failed exactly if a fatal
\* error is recorded, which is the case when rewriting the project failed,
\* and a run that returned Ok is Completed unless a fatal error is recorded.
C5_FailedIffFatal ==
    \A j \in JobIds :
        pc[j] = "done" =>
            /\ result[j].val = "Err_write" => (progress[j].status = "Failed" /\ HasFatalError(j))
            /\ progress[j].status = "Failed" <=> HasFatalError(j)
            /\ result[j].val = "Ok" =>
                  progress[j].status = (IF HasFatalError(j) THEN "Failed" ELSE "Completed")

\* C6: whenever run() has returned, with Ok or with Err, the status is
\* Completed, Cancelled or Failed.
C6_ReturnedIsTerminal ==
    \A j \in JobIds : pc[j] = "done" => progress[j].status \in TerminalStatus

\* C7: files_processed and bytes_processed of a job never decrease.
C7_ProgressMonotonic ==
    [][\A j \in JobIds :
          /\ progress'[j].files_processed >= progress[j].files_processed
          /\ progress'[j].bytes_processed >= progress[j].bytes_processed]_vars

\* two items of different sizes have been processed, the smaller one last
C7_Witness ==
    \E j \in JobIds :
        /\ progress[j].files_processed = 2
        /\ progress[j].bytes_processed = 3
        /\ idx[j] = 3 /\ config[j].media[2].size = 1

C9_OpenReturnsFreshParse ==
    \A t \in Threads :
        (tpc[t] = "return" /\ tcmd[t] = "open_project" /\ tproject[t] # 0)
            => /\ tproject[t] > tmark[t]
               /\ project_cache[tpath[t]] \in {0} \cup ((tmark[t] + 1)..MaxParses)

\* C10: in every analysis result the keys of used_media and unused_media are
\* disjoint and together are exactly the MediaFile GUIDs of the project.
C10_UsedUnusedPartition ==
    analysis.called =>
        /\ (DOMAIN analysis.used_media) \cap analysis.unused_media = {}
        /\ (DOMAIN analysis.used_media) \cup analysis.unused_media
              = DOMAIN project.media_files

\* the elements of a list, and whether it has no element twice
Range(q) == { q[i] : i \in DOMAIN q }
NoDuplicates(q) == \A i, k \in DOMAIN q : q[i] = q[k] => i = k

\* the nesting graph: the ids a sequence nests, through Nested clips on its
\* tracks or through its nested_sequences list
TrackClips(tracks) == UNION { Range(tracks[i]) : i \in DOMAIN tracks }
NestedIds(proj, id) ==
    LET k == FindSequence(proj, id)
    IN  IF k = 0 THEN {}
        ELSE LET sq == proj.sequences[k]
             IN  { c.sequence_id :
                     c \in { d \in TrackClips(sq.video_tracks) \cup TrackClips(sq.audio_tracks) :
                              d.clip_type = "Nested" } }
                 \cup Range(sq.nested_sequences)

RECURSIVE ReachableIds(_, _)
ReachableIds(proj, S) ==
    LET T == S \cup UNION { NestedIds(proj, id) : id \in S }
    IN  IF T = S THEN S ELSE ReachableIds(proj, T)

\* C11: for any nesting graph, cycles and self-nesting included, the analysis
\* returns; the sequences whose tracks were walked are the reachable
\* sequences, each walked once; and sequences_analyzed lists every reachable
\* id exactly once.
C11_EachSequenceOnce ==
    analysis.called =>
        LET R == ReachableIds(project, Range(analysis.sequence_ids))
        IN  /\ NoDuplicates(analysis.walked)
            /\ Range(analysis.walked) = { id \in R : FindSequence(project, id) # 0 }
            /\ NoDuplicates(analysis.sequences_analyzed)
            /\ Range(analysis.sequences_analyzed) = R

\* S1 nests S2 and S2 nests S1 through Nested clips; the analysis of S1 has
\* returned with both in sequences_analyzed
C11_Witness ==
    /\ analysis.called
    /\ analysis.sequence_ids = <<"S1">>
    /\ "S2" \in NestedIds(project, "S1")
    /\ "S1" \in NestedIds(project, "S2")
    /\ Range(analysis.sequences_analyzed) = {"S1", "S2"}
    /\ Len(analysis.walked) = 2

\* the clips on the tracks of the sequences the last call walked
WalkedClips ==
    UNION { TrackClips(project.sequences[FindSequence(project, id)].video_tracks)
            \cup TrackClips(project.sequences[FindSequence(project, id)].audio_tracks) :
              id \in Range(analysis.walked) }

AngleCounts(a) == a.is_active \/ analysis.opts.include_unused_multicam_angles

\* C12: an angle of a walked multicam clip that is active, or any angle when
\* include_unused_multicam_angles is set, has its media in used_media marked
\* as a multicam angle; and when the multicam clip is the only clip walked,
\* used_media holds exactly the media of those angles.
C12_MulticamAngles ==
    analysis.called =>
        \A c \in { d \in WalkedClips : d.clip_type = "Multicam" } :
            /\ \A a \in Range(c.angles) :
                  AngleCounts(a) =>
                      /\ a.media_ref \in DOMAIN analysis.used_media
                      /\ analysis.used_media[a.media_ref].is_multicam_angle
            /\ WalkedClips = {c} =>
                  DOMAIN analysis.used_media
                      = { a.media_ref : a \in { b \in Range(c.angles) : AngleCounts(b) } }

\* the only clip walked is a multicam clip with angles M1 (active) and M2
\* (inactive), the option is off and used_media is {M1}
C12_Witness ==
    /\ analysis.called
    /\ ~analysis.opts.include_unused_multicam_angles
    /\ WalkedClips = { Clip("Multicam", "None", "", << >>,
                             <<Angle("M1", TRUE), Angle("M2", FALSE)>>, "", 0, 3) }
    /\ DOMAIN analysis.used_media = {"M1"}

\* a clip that is an adjustment layer: the variant Adjustment, or a clip
\* built from a track item whose Clip has an AdjustmentLayer / SyntheticMedia
\* child
IsAdjustment(c) ==
    \/ c.clip_type = "Adjustment"
    \/ \E item \in TrackItems : item.is_synthetic /\ item.object_id = c.object_id

\* C13: adjustment clips add nothing to used_media: when every clip walked is
\* an adjustment layer, used_media is empty.
C13_AdjustmentNoUsage ==
    (analysis.called /\ \A c \in WalkedClips : IsAdjustment(c))
        => DOMAIN analysis.used_media = {}

\* the nearest open element that declares an ObjectID or an ObjectUID
NearestIdentified ==
    LET hits == { i \in 1..Len(document) :
                    document[i].id # "None" \/ document[i].uid # "None" }
    IN  IF hits = {} THEN 0 ELSE CHOOSE i \in hits : \A k \in hits : k <= i

\* the references of element e, ObjectRef first
RefsOf(e) ==
    (IF e.ref # "None" THEN << <<e.tag, e.ref, FALSE>> >> ELSE << >>)
    \o (IF e.uref # "None" THEN << <<e.tag, e.uref, TRUE>> >> ELSE << >>)

\* the references of e are stored under the nearest enclosing identified
\* element, under its id if it has one and else under its uid, and nowhere else
StoredUnderNearest(e) ==
    LET n == NearestIdentified
    IN  IF n = 0
        THEN refs_from_id' = refs_from_id /\ refs_from_uid' = refs_from_uid
        ELSE IF document[n].id # "None"
        THEN /\ refs_from_id' = [refs_from_id EXCEPT ![document[n].id] = @ \o RefsOf(e)]
             /\ refs_from_uid' = refs_from_uid
        ELSE /\ refs_from_uid' = [refs_from_uid EXCEPT ![document[n].uid] = @ \o RefsOf(e)]
             /\ refs_from_id' = refs_from_id

\* C17: a reference carried by a Start or an Empty element is stored under
\* the nearest enclosing ancestor that has an ObjectID or ObjectUID, never
\* under an element without identity and never under the element that
\* carries it, even when that element declares an id; with no identified
\* ancestor it is discarded.
C17_RefUnderNearestAncestor ==
    [][ /\ \A e \in StartElements : StartEvent(e) => StoredUnderNearest(e)
        /\ \A e \in EmptyElements : EmptyEvent(e) => StoredUnderNearest(e) ]_vars

\* an element with its own ObjectID has stored a reference under an ancestor
\* known by its ObjectUID only, past an ancestor without identity
C17_Witness ==
    /\ Len(document) = 3
    /\ document[1].id = "None" /\ document[1].uid = "U1"
    /\ document[2].id = "None" /\ document[2].uid = "None"
    /\ document[3].id = "1"
    /\ refs_from_uid["U1"] = << <<"SubClip", "2", FALSE>> >>
    /\ refs_from_id["1"] = << >>

\* The reference graph of the loaded document: a terminal media descriptor
\* is a key of media_file_paths or an object of tag Media; the references
\* of an identifier are followed into the objects that exist.
IsTerminal(g) ==
    \/ g \in media_file_paths
    \/ g \in Uids /\ objects_by_uid[g].tag = "Media"

StoredRefs(n) ==
    (IF n \in NumIds THEN Range(refs_from_id[n]) ELSE {})
    \cup (IF n \in Uids THEN Range(refs_from_uid[n]) ELSE {})

IsFollowed(ref) ==
    IF ref[3] THEN ~IsTerminal(ref[2]) /\ ref[2] \in Uids /\ objects_by_uid[ref[2]] # NoObject
    ELSE ref[2] \in NumIds /\ objects_by_id[ref[2]] # << >>

RECURSIVE ReachableNodes(_)
ReachableNodes(S) ==
    LET T == S \cup { ref[2] : ref \in { r \in UNION { StoredRefs(n) : n \in S } : IsFollowed(r) } }
    IN  IF T = S THEN S ELSE ReachableNodes(T)

\* the terminal media descriptors reachable from a set of identifiers
ReachableMedia(S) ==
    { ref[2] : ref \in { r \in UNION { StoredRefs(n) : n \in ReachableNodes(S) } :
                            r[3] /\ IsTerminal(r[2]) } }

\* ... and through one reference
BranchMedia(ref) ==
    IF ref[3] /\ IsTerminal(ref[2]) THEN {ref[2]}
    ELSE IF IsFollowed(ref) THEN ReachableMedia({ref[2]})
    ELSE {}

\* C14: the resolver returns on every reference graph, with cycles and
\* self-references; no call deeper than the depth limit of 20 reads its
\* references; and when no terminal media descriptor is reachable from the
\* start (the chains are broken or cyclic) the result is none.
C14_ResolverTerminates ==
    /\ [](resolved.deepest <= DepthLimit)
    /\ []((resolved.status = "done" /\ ReachableMedia({resolved.start_id}) = {})
            => resolved.val = "None")
    /\ [](resolved.status = "running" => <>(resolved.status = "done"))

\* the track item 1 refers to 2 and 2 refers back to 1: the resolver went
\* round the cycle down to depth 20 and returned none
C14_Witness ==
    /\ resolved.status = "done"
    /\ resolved.val = "None"
    /\ resolved.deepest = DepthLimit
    /\ "2" \in ReachableNodes({"1"})
    /\ "1" \in ReachableNodes({"2"})

FollowedRefs(ref) ==
    IF ~IsFollowed(ref) THEN {}
    ELSE IF ref[3] THEN Range(refs_from_uid[ref[2]])
    ELSE Range(select_target(declared[ref[2]], ref[1]).refs)

RECURSIVE FollowedClosure(_)
FollowedClosure(E) ==
    LET F == E \cup UNION { FollowedRefs(ref) : ref \in E }
    IN  IF F = E THEN E ELSE FollowedClosure(F)

FollowedMedia(start_id) ==
    { ref[2] : ref \in { r \in FollowedClosure(StoredRefs(start_id)) :
                            r[3] /\ IsTerminal(r[2]) } }

\* C16: when objects of different tags share a numeric id, the media the
\* resolver returns is reached through the references of the objects the
\* tag filter selects; the references declared by the other objects with
\* the same id have no part in it.
C16_TagFilterIsolates ==
    (resolved.status = "done" /\ resolved.val # "None")
        => resolved.val \in FollowedMedia(resolved.start_id)

\* every range of the list has start <= end, as TimeRange::new builds them
BuiltWithNew(ranges) ==
    \A i \in DOMAIN ranges : ranges[i].start_ticks <= ranges[i].end_ticks

\* C18: for a list of ranges built with TimeRange::new, optimize(ranges, 0)
\* is sorted by start, each range ends strictly before the next one starts,
\* and optimize(_, 0) leaves that result unchanged.
C18_OptimizeSortedDisjoint ==
    (/\ range_result.op = "optimize"
     /\ range_args.gap_tolerance = 0
     /\ BuiltWithNew(range_args.ranges))
        => LET out == range_result.val
           IN  /\ \A i \in 1..(Len(out) - 1) :
                     /\ out[i].start_ticks <= out[i + 1].start_ticks
                     /\ out[i].end_ticks < out[i + 1].start_ticks
               /\ optimize_time_ranges(out, 0) = out

\* three ranges given out of order, two of them overlapping, optimized into
\* two
C18_Witness ==
    /\ range_result.op = "optimize"
    /\ range_args.gap_tolerance = 0
    /\ range_args.ranges = <<TimeRange_new(3, 3), TimeRange_new(1, 2), TimeRange_new(0, 1)>>
    /\ range_result.val = <<TimeRange_new(0, 2), TimeRange_new(3, 3)>>

\* what merge_with is said to return for a, b and g
MergeExpected(a, b, g) ==
    IF Max(a.start_ticks, b.start_ticks) <= Min(a.end_ticks, b.end_ticks) + g
    THEN [start_ticks |-> Min(a.start_ticks, b.start_ticks),
          end_ticks |-> Max(a.end_ticks, b.end_ticks)]
    ELSE NoRange

\* C19: for all TimeRange a, b and every gap_tolerance g,
\* a.merge_with(b, g) is some exactly when max(starts) <= min(ends) + g, it
\* is then [min of starts, max of ends], and it equals b.merge_with(a, g).
C19_MergeWithAnyTolerance ==
    range_result.op = "merge_with" =>
        /\ range_result.val[1] = MergeExpected(range_args.ranges[1], range_args.ranges[2],
                                               range_args.gap_tolerance)
        /\ range_result.val[1] = range_result.val[2]

RECURSIVE SumDurations(_)
SumDurations(ranges) ==
    IF ranges = << >> THEN 0 ELSE duration(Head(ranges)) + SumDurations(Tail(ranges))

\* the duration of the bounding hull: from the least start to the greatest end
HullDuration(ranges) ==
    LET starts == { ranges[i].start_ticks : i \in DOMAIN ranges }
        ends == { ranges[i].end_ticks : i \in DOMAIN ranges }
    IN  (CHOOSE e \in ends : \A x \in ends : x <= e)
        - (CHOOSE b \in starts : \A x \in starts : b <= x)

\* the merged_range add_media_usage keeps for the ranges it pushed: the
\* first range, then TimeRange::new of the least start and the greatest end
\* at every push
RECURSIVE merged_range(_)
merged_range(ranges) ==
    LET n == Len(ranges)
        last == ranges[n]
        before == IF n = 1 THEN last ELSE merged_range(SubSeq(ranges, 1, n - 1))
    IN  TimeRange_new(Min(before.start_ticks, last.start_ticks),
                      Max(before.end_ticks, last.end_ticks))

\* C20: for a non-empty list of ranges, the durations of optimize(ranges, 0)
\* sum to at most the duration of the bounding hull of the ranges, from the
\* least start to the greatest end, and to at most the duration of the
\* merged_range kept with them.
C20_OptimizedWithinHull ==
    (/\ range_result.op = "optimize"
     /\ range_args.gap_tolerance = 0
     /\ range_args.ranges # << >>)
        => /\ SumDurations(range_result.val) <= HullDuration(range_args.ranges)
           /\ SumDurations(range_result.val) <= duration(merged_range(range_args.ranges))

\* overlapping ranges and a separate one: the optimized durations sum to
\* less than the hull
C20_Witness ==
    /\ range_result.op = "optimize"
    /\ range_args.gap_tolerance = 0
    /\ range_args.ranges = <<TimeRange_new(0, 1), TimeRange_new(3, 3), TimeRange_new(0, 1)>>
    /\ SumDurations(range_result.val) = 1
    /\ HullDuration(range_args.ranges) = 3

\* C21: with_handles clamps into [0, media_duration] and keeps start <= end:
\* every range the analyzer stores for a media of the project lies in
\* 0 <= start <= end <= duration of the media, also when that duration is 0.
C21_StoredRangesClamped ==
    analysis.called =>
        \A m \in DOMAIN analysis.used_media :
            \A i \in DOMAIN analysis.used_media[m].time_ranges :
                LET r == analysis.used_media[m].time_ranges[i]
                    media_duration == IF m \in DOMAIN project.media_files
                                      THEN project.media_files[m] ELSE I64_MAX
                IN  /\ 0 <= r.start_ticks
                    /\ r.start_ticks <= r.end_ticks
                    /\ r.end_ticks <= media_duration

\* the new paths the occurrences of the source paths may be replaced with:
\* for each occurrence, a slash form of the output path of its source path
NewPathFor(mapping, occurrence) ==
    UNION { SlashForms(e[2]) : e \in { x \in mapping : occurrence \in SlashForms(x[1]) } }

RECURSIVE Rewritten(_, _)
Rewritten(mapping, occurrences) ==
    IF occurrences = << >> THEN { <<"<">> }
    ELSE { <<"<">> \o n \o rest : n \in NewPathFor(mapping, Head(occurrences)),
                                  rest \in Rewritten(mapping, Tail(occurrences)) }

\* C22: for every path mapping applied by the rewrite, the output XML holds
\* no occurrence of a source path in any of its three slash forms, and holds
\* the new path wherever the source path occurred.
C22_RewriteReplacesPaths ==
    call_result.op = "rewrite" =>
        /\ \A e \in call_args.path_mapping : \A f \in SlashForms(e[1]) :
              ~contains(call_result.val, f)
        /\ call_result.val \in Rewritten(call_args.path_mapping, call_args.occurrences)

\* C23: in Trim mode with handle_frames = 0, a media of a loaded project
\* (duration_ticks 0) used by exactly one clip [in, out), in < out, gets one
\* transcoder invocation, with start in and duration out - in, written to
\* the output path of the media.
C23_SingleClipTrim ==
    (/\ call_result.op = "trim"
     /\ call_args.handle_frames = 0
     /\ call_args.media_duration = 0
     /\ Len(call_args.clips) = 1)
        => call_result.val.invocations =
               << [output |-> <<"output_path">>,
                   ss |-> call_args.clips[1][1],
                   t |-> call_args.clips[1][2] - call_args.clips[1][1]] >>

\* C24: in Trim mode with MinimizeDiskSpace or EachClipUnique, a media whose
\* usage optimizes to k >= 2 disjoint ranges gets k transcoder invocations,
\* one per range and in its range, each named by the suffix of its own range
\* (or by its index), k outputs in all, and files_processed advances by 1.
C24_OneOutputPerRange ==
    LET ranges == call_result.val.ranges
        k == Len(ranges)
        invocations == call_result.val.invocations
    IN  (/\ call_result.op = "trim"
         /\ call_args.optimization_mode \in {"MinimizeDiskSpace", "EachClipUnique"}
         /\ k >= 2
         /\ \A i \in 1..(k - 1) : ranges[i].end_ticks < ranges[i + 1].start_ticks)
            => /\ Len(invocations) = k
               /\ \A i \in 1..k :
                     /\ invocations[i].ss = ranges[i].start_ticks
                     /\ invocations[i].t = ranges[i].end_ticks - ranges[i].start_ticks
                     /\ invocations[i].output =
                            IF call_args.add_frame_range_to_filename
                            THEN <<"range", ranges[i].start_ticks \div TICKS_PER_SECOND,
                                   ranges[i].end_ticks \div TICKS_PER_SECOND>>
                            ELSE <<"index", i>>
               /\ Cardinality(call_result.val.outputs) = k
               /\ call_result.val.files_processed = 1

\* C25: for every media item processed in Trim, Transcode or Copy mode,
\* path_mapping maps its source to the first output written for it: every
\* new path of the mapping is a file the executor produced.
C25_MappingIsWrittenOutput ==
    \A j \in JobIds :
        config[j].processing_mode \in {"Trim", "Transcode", "Copy"} =>
            \A e \in path_mapping[j] :
                /\ e \in disk[j].outputs
                /\ \A o \in disk[j].outputs : o[1] = e[1] => e[2] <= o[2]

\* the used media of job j whose source file is missing
OfflineItems(j) ==
    { i \in DOMAIN config[j].media : config[j].media[i].known /\ ~config[j].media[i].exists }

\* C26: a used media whose source file is missing is skipped without
\* aborting the job: one warning and no error with skip_offline_media, else
\* one error with is_fatal = false; files_processed, bytes_processed,
\* path_mapping and the output tree are left as they are, the loop goes on,
\* and a job that ends well has emitted the new project, with nothing
\* written or mapped for the offline items.
C26_OfflineItemSkipped ==
    /\ [][\A j \in JobIds :
            (pc[j] = "item" /\ pc'[j] # "item" /\ idx[j] \in OfflineItems(j)) =>
                /\ IF config[j].skip_offline_media
                   THEN /\ Len(progress'[j].warnings) = Len(progress[j].warnings) + 1
                        /\ progress'[j].errors = progress[j].errors
                   ELSE /\ progress'[j].warnings = progress[j].warnings
                        /\ Len(progress'[j].errors) = Len(progress[j].errors) + 1
                        /\ ~progress'[j].errors[Len(progress'[j].errors)].is_fatal
                /\ progress'[j].files_processed = progress[j].files_processed
                /\ progress'[j].bytes_processed = progress[j].bytes_processed
                /\ path_mapping'[j] = path_mapping[j]
                /\ disk'[j] = disk[j]
                /\ result'[j] = result[j]
                /\ pc'[j] = "loop"
                /\ idx'[j] = idx[j] + 1]_vars
    /\ [](\A j \in JobIds :
            /\ \A i \in OfflineItems(j) :
                  /\ \A o \in disk[j].outputs : o[1] # i
                  /\ \A e \in path_mapping[j] : e[1] # i
            /\ result[j].val = "Ok" => disk[j].project)

\* a job whose only used media is offline ended well: one warning, no
\* error, nothing processed, an empty output tree and the new project
C26_Witness ==
    \E j \in JobIds :
        /\ result[j].val = "Ok"
        /\ config[j].skip_offline_media
        /\ Len(config[j].media) = 1
        /\ OfflineItems(j) = {1}
        /\ Len(progress[j].warnings) = 1
        /\ progress[j].errors = << >>
        /\ progress[j].files_processed = 0
        /\ disk[j].outputs = {}
        /\ path_mapping[j] = {}
        /\ disk[j].project

\* C28: cancellation is checked before each media item: once the cancel flag
\* is set, no item that had not begun is started (the head of the loop only
\* leaves run()), so at most the item in progress at that moment finishes.
C28_NoItemStartedAfterCancel ==
    [][\A j \in JobIds :
          (cancel_flag[j] /\ pc[j] # "item" /\ pc'[j] # pc[j]) =>
              /\ pc'[j] # "item"
              /\ pc[j] = "loop" => (pc'[j] = "done" /\ idx'[j] = idx[j])]_vars

\* the flag was set while the first of two items was processed: that item
\* finished and the second one was never started
C28_Witness ==
    \E j \in JobIds :
        /\ cancel_flag[j]
        /\ Len(config[j].media) = 2
        /\ result[j] = [val |-> "Err_cancelled", at |-> "loop"]
        /\ idx[j] = 2
        /\ progress[j].files_processed = 1

\* q is a sequence of leading components of every path of the list
IsCommonPrefix(q, paths) ==
    \A i \in DOMAIN paths :
        /\ Len(q) <= Len(components(paths[i]))
        /\ SubSeq(components(paths[i]), 1, Len(q)) = q

\* C27: find_common_ancestor returns the longest sequence of leading
\* components shared by all the paths: the components of p for a single path
\* p, for several paths a prefix of each of them that cannot be extended to
\* a longer common prefix, and none for an empty list or when the paths
\* share no leading component.
C27_LongestCommonPrefix ==
    call_result.op = "find_common_ancestor" =>
        LET paths == call_args.paths
            val == call_result.val
            first == components(paths[1])
        IN  /\ paths = << >> => val = "None"
            /\ Len(paths) = 1 => val = first
            /\ (paths # << >> /\ val = "None") =>
                  \E i \in DOMAIN paths : components(paths[i])[1] # first[1]
            /\ (paths # << >> /\ val # "None") =>
                  /\ val # << >>
                  /\ IsCommonPrefix(val, paths)
                  /\ Len(val) < Len(first) =>
                        ~IsCommonPrefix(SubSeq(first, 1, Len(val) + 1), paths)

\* two files of a directory and one of a subdirectory written differently:
\* the common ancestor is the directory
C27_Witness ==
    /\ call_result.op = "find_common_ancestor"
    /\ call_args.paths = << <<"/", "a", "/", "x.mov">>,
                            <<"/", "a", "/", "/", "b", "/", ".", "/", "w.wav">>,
                            <<"/", "a", "/", "b", "/", "z.wav">> >>
    /\ call_result.val = <<"RootDir", "a">>

\* C29: while a well-nested sequence of events is read, the context stack
\* has one entry per open element: its depth is that of the open-element tag
\* stack, Start pushes one entry, End pops one, Empty and Text leave the
\* depth as it is, and it is empty when every element is closed.
C29_ContextStackPerOpenElement ==
    /\ [](/\ Len(object_context_stack) = Len(current_element)
          /\ Len(object_context_stack) = Len(document)
          /\ document = << >> => object_context_stack = << >>)
    /\ [][nevents' # nevents =>
            Len(object_context_stack') =
                Len(object_context_stack)
                + (CASE event' = "Start" -> 1
                     [] event' = "End" -> -1
                     [] OTHER -> 0)]_vars

\* an element was opened, an Empty element and a text were read inside it,
\* and it was closed: the stack is empty again
C29_Witness ==
    /\ event = "End"
    /\ object_context_stack = << >>
    /\ current_element = << >>
    /\ Len(objects_by_id["3"]) = 1
    /\ Len(objects_by_id["1"]) = 1
    /\ objects_by_id["1"][1].children = << <<"Clip", "t">> >>

\* the open element that is the nearest enclosing identified ancestor of a
\* text, as an index of document (0: none)
NearestIdentifiedIndex ==
    LET hits == { i \in 1..Len(document) :
                    document[i].id # "None" \/ document[i].uid # "None" }
    IN  IF hits = {} THEN 0 ELSE CHOOSE i \in hits : \A k \in hits : k <= i

\* C30: a Text event is appended, under the key of its immediate parent tag,
\* to the children of the object of the nearest enclosing identified
\* ancestor and to no other object: not to a farther ancestor that has the
\* other kind of identifier, not to another object declared with the same
\* numeric id.
C30_TextToNearestAncestor ==
    [][(nevents' # nevents /\ event' = "Text" /\ current_text' # "") =>
          LET n == NearestIdentifiedIndex
              entry == <<current_element[Len(current_element)], current_text'>>
          IN  /\ \A u \in Uids :
                    objects_by_uid'[u] # objects_by_uid[u] => (n > 0 /\ document[n].uid = u)
              /\ \A i \in NumIds : \A k \in 1..Len(objects_by_id[i]) :
                    objects_by_id'[i][k] # objects_by_id[i][k] =>
                        (n > 0 /\ document[n].id = i /\ document[n].index = k)
              /\ (n > 0 /\ document[n].uid # "None") =>
                    objects_by_uid'[document[n].uid].children =
                        Append(objects_by_uid[document[n].uid].children, entry)
              /\ (n > 0 /\ document[n].id # "None") =>
                    objects_by_id'[document[n].id][document[n].index].children =
                        Append(objects_by_id[document[n].id][document[n].index].children, entry)
      ]_vars

\* a mapped source path is a substring of another mapped source path or of
\* a new path of the mapping
HasSubstringPath(mapping) ==
    \E e1, e2 \in mapping :
        \/ e1 # e2 /\ contains(e2[1], e1[1])
        \/ \E f \in SlashForms(e1[1]) : contains(e2[2], f)

\* C31: when a mapped source path is a substring of another mapped source
\* path or of a new path, every occurrence of a source path is still
\* rewritten to its own new path and no substituted new path is altered by
\* a later substitution, in every iteration order of the mapping.
C31_RewriteExactOccurrences ==
    (call_result.op = "rewrite" /\ HasSubstringPath(call_args.path_mapping)) =>
        call_result.val \in Rewritten(call_args.path_mapping, call_args.occurrences)

\* C32: after build_bin_paths returned (every parent chain walked by the
\* loader was free of cycles), a bin without a parent has path = name and a
\* bin whose parent is a known bin has the path of a bin of that id, "/" and
\* its name.
C32_BinPathFromParent ==
    call_result.op = "build_bin_paths" =>
        \A i \in DOMAIN call_result.val.bins :
            LET bins == call_result.val.bins
                bin == bins[i]
                parents == { k \in DOMAIN bins : bins[k].object_id = bin.parent_id }
            IN  /\ bin.parent_id = "None" => bin.path = <<bin.name>>
                /\ parents # {} =>
                      \E k \in parents : bin.path = bins[k].path \o <<"/", bin.name>>

\* three bins in a chain of three distinct ids got their paths
C32_Witness ==
    /\ call_result.op = "build_bin_paths"
    /\ Len(call_result.val.bins) = 3
    /\ \E i \in DOMAIN call_result.val.bins : Len(call_result.val.bins[i].path) = 5
    /\ \A i, k \in DOMAIN call_result.val.bins :
          i # k => call_result.val.bins[i].object_id # call_result.val.bins[k].object_id

\* C36: build_bin_paths returns for every assignment of parent ids to the
\* bins, a bin that is its own parent and longer cycles included.
C36_BinPathsTerminate ==
    <>(call_result.op = "build_bin_paths")

\* the objects the tracks of a sequence reference: the targets of its
\* VideoTracks / AudioTracks references and what these reference through
\* followed tags
RECURSIVE TrackClosure(_, _, _)
TrackClosure(graph, nodes, n) ==
    IF n = 0 THEN nodes
    ELSE LET more == { r[2] : r \in { x \in UNION { Range(refs_of(graph, t, FALSE)) : t \in nodes } :
                                        follows_tag(x[1]) } }
         IN  TrackClosure(graph, nodes \cup more, n - 1)

TrackObjects(graph, uid) ==
    LET tracks == { r[2] : r \in { x \in Range(refs_of(graph, uid, TRUE)) :
                                     x[1] \in {"VideoTracks", "AudioTracks"} } }
    IN  TrackClosure(graph, tracks, StackLimit)

\* the media of the clips the tracks of a sequence reference
TrackMedia(graph, uid) == { clip_to_media(t) : t \in TrackObjects(graph, uid) } \ {"None"}

\* C33: when a subset of the sequences of a loaded project is analyzed, a
\* media referenced only by clips of sequences outside the subset is in
\* unused_media and not in used_media.
C33_OutsideMediaUnused ==
    (call_result.op = "populated" /\ analysis.called) =>
        LET inside == UNION { TrackMedia(call_args.graph, id) : id \in Range(analysis.sequence_ids) }
            outside == UNION { TrackMedia(call_args.graph, id) :
                                 id \in Range(SequenceUids) \ Range(analysis.sequence_ids) }
        IN  \A m \in outside \ inside :
                /\ m \in analysis.unused_media
                /\ m \notin DOMAIN analysis.used_media

\* C35: populating the tracks of the sequences ends for every reference
\* graph, cycles of Track / ClipItems references included.
C35_PopulateTerminates ==
    <>(call_result.op = "populated")

\* C34: with generate_unique_filenames, two distinct source media of one job
\* never get the same output path, in every processing mode and folder
\* structure.
C34_UniqueOutputPaths ==
    (call_result.op \in {"loop", "outputs"} /\ call_args.config.generate_unique_filenames) =>
        \A i, k \in DOMAIN call_result.val.path_mapping :
            i # k => call_result.val.path_mapping[i][2] # call_result.val.path_mapping[k][2]

ProcessedItems(j) ==
    { i \in DOMAIN config[j].media : config[j].media[i].known /\ config[j].media[i].exists }

\* C38: in every state of the progress files_processed <= files_total; a
\* step advances files_processed by one at most, and only as the loop moves
\* on to the next used media; a Completed job has counted every used media
\* that was not skipped.
C38_FilesProcessedCounts ==
    /\ [](\A j \in JobIds :
            /\ progress[j].files_processed <= progress[j].files_total
            /\ progress[j].status = "Completed" =>
                  progress[j].files_processed = Cardinality(ProcessedItems(j)))
    /\ [][\A j \in JobIds :
            progress'[j].files_processed # progress[j].files_processed =>
                /\ progress'[j].files_processed = progress[j].files_processed + 1
                /\ idx[j] \in ProcessedItems(j)
                /\ idx'[j] = idx[j] + 1]_vars

\* a Completed job with two used media, one processed and one skipped
C38_Witness ==
    \E j \in JobIds :
        /\ progress[j].status = "Completed"
        /\ Len(config[j].media) = 2
        /\ progress[j].files_total = 2
        /\ progress[j].files_processed = 1

\* what the engine holds of a job other than its cancel flag
JobState(j) ==
    <<config[j], progress[j], pc[j], idx[j], inv[j], child[j], path_mapping[j],
      disk[j], result[j]>>

\* C39: cancel_consolidation affects only the named job: a step that sets a
\* cancel flag is a cancel of that registered job and leaves every other
\* job's flag and every job's status and progress as they are; a cancel of
\* an unknown job id answers with an error and changes no job.
C39_CancelOnlyNamedJob ==
    [][/\ \A j \in JobIds :
            (cancel_flag'[j] /\ ~cancel_flag[j]) =>
                /\ response' = [cmd |-> "cancel", job |-> j, ok |-> TRUE]
                /\ j \in running_jobs
                /\ \A k \in JobIds \ {j} : cancel_flag'[k] = cancel_flag[k]
                /\ \A k \in JobIds : JobState(k)' = JobState(k)
                /\ running_jobs' = running_jobs
       /\ (response' # response /\ response'.cmd = "cancel") =>
             /\ response'.ok = (response'.job \in running_jobs)
             /\ \A k \in JobIds \ {response'.job} : cancel_flag'[k] = cancel_flag[k]
             /\ \A k \in JobIds : JobState(k)' = JobState(k)
             /\ running_jobs' = running_jobs
             /\ response'.job \notin running_jobs => cancel_flag' = cancel_flag
      ]_vars

\* two registered jobs, the first cancelled and stopped, the second still
\* at work with its flag unset
C39_Witness ==
    /\ running_jobs = {1, 2}
    /\ cancel_flag[1] /\ ~cancel_flag[2]
    /\ response = [cmd |-> "cancel", job |-> 1, ok |-> TRUE]
    /\ progress[1].status = "Cancelled"
    /\ progress[2].status \in {"Analyzing", "Processing", "WritingProject"}

====
